---- MODULE Spec2Model ----
(***************************************************************************)
(* Model of the DQCsim/OpenQL mapper operator plugin: the bidirectional    *)
(* qubit index map (QubitBiMap) and the MapperPlugin callbacks             *)
(* (initialize, allocate, free, gate, drop) with the flush in run_mapper.  *)
(* The OpenQL mapper (Mapper::Map) is an external collaborator: its output *)
(* (v2r_out and the routed circuit) is a nondeterministic input.           *)
(* The upstream plugin is DQCsim's front end, which hands out qubit        *)
(* references 1, 2, 3, ... in sequence and never reuses one.  A callback   *)
(* that throws ends the session: no callback runs after it.                *)
(***************************************************************************)
EXTENDS Integers, Sequences, FiniteSets, TLC

(***************************************************************************)
(* Bounds of the model.                                                    *)
(***************************************************************************)
\* The platform->qubit_number of the hardware configurations a session is
\* initialized with.
QubitCounts == {1, 2}
\* Upstream (DQCsim) qubit references are 1..MaxUpstream.
MaxUpstream == 3
\* Largest number of qubits in one allocate/free call.
MaxSet == 2
\* Cap on the number of gates accepted in a session.
MaxGates == 2
\* Keys and values of the stand-alone QubitBiMap are 0..MaxKey.
MaxKey == 2
\* Largest number of elements of a "matrix" array in a gatemap description.
MaxMatrix == 16

(***************************************************************************)
(* Program constants.                                                      *)
(***************************************************************************)
\* ssize_t result of a failed lookup.
NotFound == -1
\* OpenQL's marker for a virtual qubit without a real qubit in v2r_out.
UNDEFINED_QUBIT == -2
\* Offset of a downstream qubit index from its physical qubit index.
DownOffset == 1

VARIABLES
  phase,          \* "constructed" | "running" | "failed" | "dropped"
  num_qubits,     \* MapperPlugin::num_qubits
  kernel_counter, \* MapperPlugin::kernel_counter
  kernel,         \* kernel->c: the gates of the current kernel, in order
  dqcs2virt,      \* MapperPlugin::dqcs2virt
  dqcs_nq,        \* MapperPlugin::dqcs_nq
  upstream_nq,    \* number of qubit references DQCsim has handed out upstream
  virt2phys,      \* MapperPlugin::virt2phys
  options,        \* the ql::options this plugin sets
  oracle_log,     \* the options in force at each mapper.Map() call, in order
  down_allocs,    \* the state.allocate(n) requests sent downstream, in order
  emitted,        \* the state.gate(...) gates sent downstream, in order
  mapper_v2r_out, \* mapper.v2r_out as the last mapper.Map() call left it
  accepted,       \* number of gates appended to kernels so far
  ret,            \* the last callback: its name and outcome
  bm,             \* a stand-alone QubitBiMap
  op,             \* the last operation applied to bm
  gatemap_json,   \* the gatemap description a stand-alone OpenQLGateMap got
  gatemap,        \* a stand-alone OpenQLGateMap
  gatemap_op      \* the last call of gatemap: its arguments and outcome

vars == <<phase, num_qubits, kernel_counter, kernel, dqcs2virt, dqcs_nq,
          upstream_nq, virt2phys, options, oracle_log, down_allocs, emitted,
          mapper_v2r_out, accepted, ret, bm, op, gatemap_json, gatemap,
          gatemap_op>>

engine_vars == <<phase, num_qubits, kernel_counter, kernel, dqcs2virt,
                 dqcs_nq, upstream_nq, virt2phys, options, oracle_log,
                 down_allocs, emitted, mapper_v2r_out, accepted, ret>>

(***************************************************************************)
(* QubitBiMap: two hash maps, forward and reverse.                         *)
(***************************************************************************)
EmptyMap == [x \in {} |-> 0]

\* std::unordered_map::erase(key): no-op when the key is absent.
Erase(m, k) == [x \in DOMAIN m \ {k} |-> m[x]]

\* std::unordered_map::emplace: inserts only when the key is absent.
Emplace(m, k, v) == IF k \in DOMAIN m THEN m ELSE (k :> v) @@ m

QubitBiMap == [forward |-> EmptyMap, reverse |-> EmptyMap]

forward_lookup(m, upstream) ==
  IF upstream \in DOMAIN m.forward THEN m.forward[upstream] ELSE NotFound

reverse_lookup(m, downstream) ==
  IF downstream \in DOMAIN m.reverse THEN m.reverse[downstream] ELSE NotFound

\* Mutant: forgets to erase the reverse entry.
unmap_upstream_keeps_reverse(m, upstream) ==
  IF upstream \in DOMAIN m.forward
  THEN [forward |-> Erase(m.forward, upstream), reverse |-> m.reverse]
  ELSE m

unmap_upstream(m, upstream) ==
  IF upstream \in DOMAIN m.forward
  THEN [forward |-> Erase(m.forward, upstream),
        reverse |-> Erase(m.reverse, m.forward[upstream])]
  ELSE m

\* Mutant: erases the reverse entry only, leaving the forward entry behind.
unmap_downstream_keeps_forward(m, downstream) ==
  IF downstream \in DOMAIN m.reverse
  THEN [forward |-> m.forward, reverse |-> Erase(m.reverse, downstream)]
  ELSE m

unmap_downstream(m, downstream) ==
  IF downstream \in DOMAIN m.reverse
  THEN [forward |-> Erase(m.forward, m.reverse[downstream]),
        reverse |-> Erase(m.reverse, downstream)]
  ELSE m

\* Mutant: does not remove the old pairing of the downstream qubit.
map_no_unmap_downstream(m, upstream, downstream) ==
  LET m1 == unmap_upstream(m, upstream)
  IN  [forward |-> Emplace(m1.forward, upstream, downstream),
       reverse |-> Emplace(m1.reverse, downstream, upstream)]

map(m, upstream, downstream) ==
  LET m1 == unmap_upstream(m, upstream)
      m2 == unmap_downstream(m1, downstream)
  IN  [forward |-> Emplace(m2.forward, upstream, downstream),
       reverse |-> Emplace(m2.reverse, downstream, upstream)]

(***************************************************************************)
(* A QubitBiMap driven by arbitrary map/unmap calls.                       *)
(***************************************************************************)
Keys == 0..MaxKey

NoOp == [name |-> "none", a |-> 0, b |-> 0, found |-> FALSE]

EngineInit ==
  /\ phase = "constructed"
  /\ num_qubits = 0
  /\ kernel_counter = 0
  /\ kernel = <<>>
  /\ dqcs2virt = QubitBiMap
  /\ dqcs_nq = 0
  /\ upstream_nq = 0
  /\ virt2phys = QubitBiMap
  /\ options = [mapinitone2one |-> "default", initialplace |-> "default",
                mapassumezeroinitstate |-> "default"]
  /\ oracle_log = <<>>
  /\ down_allocs = <<>>
  /\ emitted = <<>>
  /\ mapper_v2r_out = EmptyMap
  /\ accepted = 0
  /\ ret = [event |-> "none", err |-> "none", meas |-> {},
            requests |-> <<>>]

BiMapInit ==
  /\ bm = QubitBiMap
  /\ op = NoOp

\* No OpenQLGateMap constructed yet.
NoGateMap ==
  [ok |-> FALSE, map |-> <<>>, has_angle |-> {},
   err |-> [openql |-> "", what |-> "none"]]

NoGateMapOp ==
  [name |-> "none",
   gate |-> [type |-> "none",
             matrix |-> [u |-> "none", theta |-> 0, nq |-> 0],
             controls |-> 0, qubits |-> <<>>],
   desc |-> [name |-> "", qubits |-> <<>>, angle |-> 0],
   ok |-> FALSE, err |-> "none"]

GateMapInit ==
  /\ gatemap_json = EmptyMap
  /\ gatemap = NoGateMap
  /\ gatemap_op = NoGateMapOp

Init ==
  /\ EngineInit
  /\ BiMapInit
  /\ GateMapInit

BiMapMap ==
  \E a \in Keys, b \in Keys :
    /\ bm' = map(bm, a, b)
    /\ op' = [name |-> "map", a |-> a, b |-> b,
              found |-> (a \in DOMAIN bm.forward \/ b \in DOMAIN bm.reverse)]
    /\ UNCHANGED <<engine_vars, gatemap_json, gatemap, gatemap_op>>

BiMapUnmapUpstream ==
  \E a \in Keys :
    /\ bm' = unmap_upstream(bm, a)
    /\ op' = [name |-> "unmap_upstream", a |-> a, b |-> 0,
              found |-> (a \in DOMAIN bm.forward)]
    /\ UNCHANGED <<engine_vars, gatemap_json, gatemap, gatemap_op>>

BiMapUnmapDownstream ==
  \E b \in Keys :
    /\ bm' = unmap_downstream(bm, b)
    /\ op' = [name |-> "unmap_downstream", a |-> 0, b |-> b,
              found |-> (b \in DOMAIN bm.reverse)]
    /\ UNCHANGED <<engine_vars, gatemap_json, gatemap, gatemap_op>>

NextBiMap ==
  \/ BiMapMap
  \/ BiMapUnmapUpstream
  \/ BiMapUnmapDownstream

SpecBiMap == Init /\ [][NextBiMap]_vars

(***************************************************************************)
(* The gate map, as far as the plugin callbacks depend on it: an example   *)
(* gatemap description registering x, rx, cz and a Z-basis measurement.    *)
(***************************************************************************)
\* Registered DQCsim gate kinds and their OpenQL names.
GateMapNames ==
  [X |-> "x", RX |-> "rx", CZ |-> "cz", MeasureZ |-> "measure",
   PrepZ |-> "prepz"]

\* Registered kinds whose description carries multi_qubit_parallel: a
\* preparation of several qubits at once, which OpenQL takes one qubit at a
\* time.
ParallelKinds == {"PrepZ"}

\* OpenQL names that take the angle argument.
has_angle == {"rx"}

\* OpenQLGateMap::detect: the description, or UnknownGate.
detect(g) ==
  IF g.kind \in DOMAIN GateMapNames
  THEN [ok |-> TRUE,
        name |-> GateMapNames[g.kind],
        qubits |-> g.qubits,
        angle |-> IF GateMapNames[g.kind] \in has_angle THEN g.angle ELSE 0,
        multi_qubit_parallel |-> g.kind \in ParallelKinds]
  ELSE [ok |-> FALSE, name |-> "", qubits |-> <<>>, angle |-> 0,
        multi_qubit_parallel |-> FALSE]

\* OpenQLGateMap::construct on a gate of the mapped kernel, with the qubit
\* indices converted to downstream indices.
construct(ql_gate) ==
  [name |-> ql_gate.name,
   qubits |-> [i \in 1..Len(ql_gate.operands) |->
                 ql_gate.operands[i] + DownOffset],
   angle |-> IF ql_gate.name \in has_angle THEN ql_gate.angle ELSE 0]

(***************************************************************************)
(* Inputs of the callbacks.                                                *)
(***************************************************************************)
UpstreamIds == 1..MaxUpstream

Range(s) == {s[i] : i \in DOMAIN s}

\* The next count qubit references DQCsim hands out after the first nq, in
\* the order allocate pops them.
NewQubits(nq, count) == [i \in 1..count |-> nq + i]

\* The qubit sets of free, popped in the order of the references.
IdSeqs ==
  {s \in UNION {[1..n -> UpstreamIds] : n \in 1..MaxSet} :
     \A i, j \in DOMAIN s : i < j => s[i] < s[j]}

\* The DQCsim gates the upstream plugin sends.
Gates ==
     {[kind |-> "X", qubits |-> <<u>>, angle |-> 0, measures |-> {}] :
        u \in UpstreamIds}
  \cup
     {[kind |-> "Unknown", qubits |-> <<1>>, angle |-> 0, measures |-> {}]}
  \cup
     {[kind |-> "RX", qubits |-> <<1>>, angle |-> 1, measures |-> {}]}
  \cup
     {[kind |-> "PrepZ", qubits |-> <<2, 1>>, angle |-> 0, measures |-> {}]}
  \cup
     {[kind |-> "CZ", qubits |-> <<p[1], p[2]>>, angle |-> 0,
       measures |-> {}] :
        p \in {q \in UpstreamIds \X UpstreamIds : q[1] # q[2]}}
  \cup
     {[kind |-> "MeasureZ", qubits |-> <<u>>, angle |-> 0, measures |-> {u}] :
        u \in UpstreamIds}

\* What initialize finds in its commands, environment and files.
Configs == {"ok", "bad_command", "no_hardware_config", "no_gatemap",
            "bad_gatemap"}

\* The callback that ran last, the error it threw ("none" when it
\* returned), the measurement set it returned and the measurement results
\* it asked the downstream plugin for (none, unless the measurement loop of
\* gate fills them in).
Return(event, err, meas) ==
  [event |-> event, err |-> err, meas |-> meas, requests |-> <<>>]

\* The session goes on after a callback that returned and ends with one
\* that threw.
After(err) == IF err = "none" THEN "running" ELSE "failed"

(***************************************************************************)
(* The gatemap description: the JSON values OpenQLGateMap reads.           *)
(***************************************************************************)
\* A JSON string; str holds its text cut into the "c-" prefixes and the
\* rest, e.g. "C-RX" as <<"C-", "RX">>.
JString(s) == [json |-> "string", str |-> s]
JNumber(n) == [json |-> "number", num |-> n]
\* A JSON object; obj maps the keys it has to their values.
JObject(o) == [json |-> "object", obj |-> o]
\* A JSON array; elems gives the shape of each element ("pair" for an array
\* of two numbers), and spells names the matrix that the numbers of a
\* well-shaped array amount to once its columns are normalized, "none"
\* when that matrix is not unitary.
JArray(e, m) == [json |-> "array", elems |-> e, spells |-> m]

\* A matrix of dqcs::Matrix: its name, its angle in degrees when it is a
\* rotation, and the number of qubits it acts on.
Mat(u, theta, nq) == [u |-> u, theta |-> theta, nq |-> nq]

\* dqcs::Matrix(dqcs::PauliBasis::...)
PauliBasis(b) == Mat(b, 0, 1)

\* std::tolower on the texts the descriptions use.
ToLower ==
  ("C-" :> "c-") @@ ("X" :> "x") @@ ("RX" :> "rx")

\* lowercase(): every character through std::tolower.
lowercase(s) ==
  [i \in DOMAIN s |-> IF s[i] \in DOMAIN ToLower THEN ToLower[s[i]] ELSE s[i]]

\* while (typ.rfind("c-", 0) == 0) { typ = typ.substr(2); controlled++; }
RECURSIVE strip_controlled(_, _)
strip_controlled(typ, controlled) ==
  IF typ # <<>> /\ Head(typ) = "c-"
  THEN strip_controlled(Tail(typ), controlled + 1)
  ELSE [typ |-> typ, controlled |-> controlled]

\* The body of the first loop of initialize: the string notation desugared
\* to the object notation, and the lowercase type; not ok when
\* nlohmann::json throws, for a record that is neither a string nor an
\* object with a string under "type".
desugar(desc) ==
  IF desc.json = "string"
  THEN LET s == strip_controlled(lowercase(desc.str), 0)
       IN  [ok |-> TRUE,
            typ |-> s.typ,
            desc |-> JObject([type |-> JString(s.typ),
                              controlled |-> JNumber(s.controlled)])]
  ELSE IF /\ desc.json = "object"
          /\ "type" \in DOMAIN desc.obj
          /\ desc.obj.type.json = "string"
  THEN [ok |-> TRUE, typ |-> lowercase(desc.obj.type.str), desc |-> desc]
  ELSE [ok |-> FALSE, typ |-> <<>>, desc |-> desc]

\* Mutant: accepts every multiple of four.
matrix_size_multiple_of_four(len) ==
  IF len > 1 /\ len % 4 # 0
  THEN [ok |-> FALSE, nq |-> 0, dim |-> 1]
  ELSE [ok |-> TRUE, nq |-> 0, dim |-> 1]

\* while (len > 1) { if (len & 3) throw; len >>= 2; dim <<= 1; nq += 1; }
matrix_size(len) ==
  LET RECURSIVE Loop(_, _, _)
      Loop(l, dim, nq) ==
        IF l > 1
        THEN IF l % 4 # 0
             THEN [ok |-> FALSE, nq |-> nq, dim |-> dim]
             ELSE Loop(l \div 4, dim * 2, nq + 1)
        ELSE [ok |-> TRUE, nq |-> nq, dim |-> dim]
  IN  Loop(len, 1, 0)

\* The "matrix" branch of add_mapping. The normalization of an empty array
\* reads entries[0] past its end: what the build makes of that is given by
\* spells, which for an empty array is "crash", "none" or a matrix.
parse_matrix(ob) ==
  IF ob.json # "array"
  THEN [ok |-> FALSE, matrix |-> PauliBasis("Z"),
        what |-> "matrix must be an array"]
  ELSE IF \E i \in DOMAIN ob.elems : ob.elems[i] # "pair"
  THEN [ok |-> FALSE, matrix |-> PauliBasis("Z"),
        what |-> "matrix elements must be arrays of size two"]
  ELSE IF ~matrix_size(Len(ob.elems)).ok
  THEN [ok |-> FALSE, matrix |-> PauliBasis("Z"),
        what |-> "matrix has invalid size"]
  ELSE IF ob.spells.u = "crash"
  THEN [ok |-> FALSE, matrix |-> PauliBasis("Z"), what |-> "crash"]
  ELSE IF ob.spells.u = "none"
  THEN [ok |-> FALSE, matrix |-> PauliBasis("Z"),
        what |-> "matrix is not unitary"]
  ELSE [ok |-> TRUE, matrix |-> ob.spells, what |-> ""]

\* The "basis" branch of add_mapping.
parse_basis(ob) ==
  IF ob.json # "string"
  THEN [ok |-> FALSE, matrix |-> PauliBasis("Z"), what |-> "type_error"]
  ELSE IF lowercase(ob.str) = <<"x">>
  THEN [ok |-> TRUE, matrix |-> PauliBasis("X"), what |-> ""]
  ELSE IF lowercase(ob.str) = <<"y">>
  THEN [ok |-> TRUE, matrix |-> PauliBasis("Y"), what |-> ""]
  ELSE IF lowercase(ob.str) # <<"z">>
  THEN [ok |-> FALSE, matrix |-> PauliBasis("Z"), what |-> "unknown basis"]
  ELSE [ok |-> TRUE, matrix |-> PauliBasis("Z"), what |-> ""]

\* The predefined gates add_mapping knows by type: the matrix, and whether
\* the gate takes its angle as an argument. The type "phase" is left out:
\* add_mapping registers it like the other types, and whether
\* dqcs::PredefinedGate::Phase takes an argument is not in these sources.
PredefinedGate ==
  [i |-> [matrix |-> Mat("i", 0, 1), param |-> FALSE],
   x |-> [matrix |-> Mat("x", 0, 1), param |-> FALSE],
   y |-> [matrix |-> Mat("y", 0, 1), param |-> FALSE],
   z |-> [matrix |-> Mat("z", 0, 1), param |-> FALSE],
   h |-> [matrix |-> Mat("h", 0, 1), param |-> FALSE],
   s |-> [matrix |-> Mat("s", 0, 1), param |-> FALSE],
   s_dag |-> [matrix |-> Mat("s_dag", 0, 1), param |-> FALSE],
   t |-> [matrix |-> Mat("t", 0, 1), param |-> FALSE],
   t_dag |-> [matrix |-> Mat("t_dag", 0, 1), param |-> FALSE],
   rx_90 |-> [matrix |-> Mat("rx", 90, 1), param |-> FALSE],
   rx_m90 |-> [matrix |-> Mat("rx", -90, 1), param |-> FALSE],
   rx_180 |-> [matrix |-> Mat("rx", 180, 1), param |-> FALSE],
   rx |-> [matrix |-> Mat("rx", 0, 1), param |-> TRUE],
   ry_90 |-> [matrix |-> Mat("ry", 90, 1), param |-> FALSE],
   ry_m90 |-> [matrix |-> Mat("ry", -90, 1), param |-> FALSE],
   ry_180 |-> [matrix |-> Mat("ry", 180, 1), param |-> FALSE],
   ry |-> [matrix |-> Mat("ry", 0, 1), param |-> TRUE],
   rz_90 |-> [matrix |-> Mat("rz", 90, 1), param |-> FALSE],
   rz_m90 |-> [matrix |-> Mat("rz", -90, 1), param |-> FALSE],
   rz_180 |-> [matrix |-> Mat("rz", 180, 1), param |-> FALSE],
   rz |-> [matrix |-> Mat("rz", 0, 1), param |-> TRUE],
   swap |-> [matrix |-> Mat("swap", 0, 2), param |-> FALSE],
   sqswap |-> [matrix |-> Mat("sqswap", 0, 2), param |-> FALSE]]

(***************************************************************************)
(* dqcs::GateMap, as OpenQLGateMap uses it: the converters in the order    *)
(* they were added; detect asks them in that order.                        *)
(***************************************************************************)
\* Mutant: registers every measurement in the Z basis.
with_measure_in_z(gmap, openql, matrix) ==
  Append(gmap, [openql |-> openql, family |-> "measure",
               matrix |-> PauliBasis("Z"), param |-> FALSE,
               controlled |-> 0])

\* map.with_measure(openql, matrix, epsilon)
with_measure(gmap, openql, matrix) ==
  Append(gmap, [openql |-> openql, family |-> "measure", matrix |-> matrix,
               param |-> FALSE, controlled |-> 0])

\* map.with_prep(openql, matrix, epsilon)
with_prep(gmap, openql, matrix) ==
  Append(gmap, [openql |-> openql, family |-> "prep", matrix |-> matrix,
               param |-> FALSE, controlled |-> 0])

\* map.with_unitary(openql, matrix or predefined gate, controlled, epsilon)
with_unitary(gmap, openql, matrix, param, controlled) ==
  Append(gmap, [openql |-> openql, family |-> "unitary", matrix |-> matrix,
               param |-> param, controlled |-> controlled])

\* Whether the converter recognizes the DQCsim gate.
Matches(e, gate) ==
  /\ gate.type = e.family
  /\ gate.controls = e.controlled
  /\ IF e.param
     THEN gate.matrix.u = e.matrix.u /\ gate.matrix.nq = e.matrix.nq
     ELSE gate.matrix = e.matrix

\* map.detect(gate, &openql, &qubits, &params): the first converter, in the
\* order of registration, that recognizes the gate.
GateMap_detect(gmap, gate) ==
  LET hits == {i \in DOMAIN gmap : Matches(gmap[i], gate)}
  IN  IF hits = {}
      THEN [detected |-> FALSE, openql |-> "", qubits |-> <<>>,
            params |-> <<>>]
      ELSE LET e == gmap[CHOOSE i \in hits : \A j \in hits : i <= j]
           IN  [detected |-> TRUE, openql |-> e.openql,
                qubits |-> gate.qubits,
                params |-> IF e.param THEN <<gate.matrix.theta>> ELSE <<>>]

NoGate == [type |-> "none", matrix |-> Mat("none", 0, 0), controls |-> 0,
           qubits |-> <<>>]

\* map.construct(name, qubits, params): throws for a name that was not
\* registered, for a missing argument and for a wrong number of qubits.
GateMap_construct(gmap, name, qubits, params) ==
  LET hits == {i \in DOMAIN gmap : gmap[i].openql = name}
  IN  IF hits = {}
      THEN [ok |-> FALSE, gate |-> NoGate]
      ELSE LET e == gmap[CHOOSE i \in hits : TRUE]
           IN  IF \/ e.param /\ params = <<>>
                  \/ e.family = "unitary"
                       /\ Len(qubits) # e.controlled + e.matrix.nq
                  \/ qubits = <<>>
               THEN [ok |-> FALSE, gate |-> NoGate]
               ELSE [ok |-> TRUE,
                     gate |-> [type |-> e.family,
                               matrix |-> IF e.param
                                          THEN [e.matrix EXCEPT
                                                  !.theta = params[1]]
                                          ELSE e.matrix,
                               controls |-> e.controlled,
                               qubits |-> qubits]]

(***************************************************************************)
(* OpenQLGateMap                                                           *)
(***************************************************************************)
\* OpenQLGateMap::add_mapping: the gate map with the converter for the
\* record added, or what the exception says.
add_mapping(gmap, openql, desc) ==
  LET o == desc.obj
      typ == lowercase(o.type.str)
      m == IF "matrix" \in DOMAIN o THEN parse_matrix(o.matrix)
           ELSE IF "basis" \in DOMAIN o THEN parse_basis(o.basis)
           ELSE [ok |-> TRUE, matrix |-> PauliBasis("Z"), what |-> ""]
  IN  IF ~m.ok
      THEN [ok |-> FALSE, map |-> gmap, what |-> m.what]
      ELSE IF typ = <<"measure">>
      THEN [ok |-> TRUE, map |-> with_measure(gmap, openql, m.matrix),
            what |-> ""]
      ELSE IF typ = <<"prep">>
      THEN [ok |-> TRUE, map |-> with_prep(gmap, openql, m.matrix),
            what |-> ""]
      ELSE IF "controlled" \in DOMAIN o /\ o.controlled.json # "number"
      THEN [ok |-> FALSE, map |-> gmap, what |-> "type_error"]
      ELSE LET controlled == IF "controlled" \in DOMAIN o
                             THEN o.controlled.num ELSE 0
           IN  IF typ = <<"unitary">>
               THEN [ok |-> TRUE,
                     map |-> with_unitary(gmap, openql, m.matrix, FALSE,
                                          controlled),
                     what |-> ""]
               ELSE IF Len(typ) = 1 /\ typ[1] \in DOMAIN PredefinedGate
               THEN [ok |-> TRUE,
                     map |-> with_unitary(gmap, openql,
                                          PredefinedGate[typ[1]].matrix,
                                          PredefinedGate[typ[1]].param,
                                          controlled),
                     what |-> ""]
               ELSE [ok |-> FALSE, map |-> gmap,
                     what |-> "unknown gate type"]

\* The keys a gatemap description may have, in the order in which
\* nlohmann::json iterates over the keys of an object.
OpenQLKeys == <<"g1", "g2">>

\* The OpenQLGateMap when its constructor threw "while parsing gatemap entry
\* for <openql>: <what>"; a crash leaves no message.
Failed(openql, what) ==
  [ok |-> FALSE, map |-> <<>>, has_angle |-> {},
   err |-> [openql |-> IF what = "crash" THEN "" ELSE openql,
            what |-> what]]

\* The records of the description in iteration order, desugared.
Records(json) ==
  LET keys == SelectSeq(OpenQLKeys, LAMBDA k : k \in DOMAIN json)
  IN  [i \in 1..Len(keys) |->
         [openql |-> keys[i], d |-> desugar(json[keys[i]])]]

IsParameterized(r) == r.d.typ \in {<<"rx">>, <<"ry">>, <<"rz">>}

\* The two add_mapping loops of initialize over the records.
RECURSIVE add_mappings(_, _)
add_mappings(gmap, records) ==
  IF records = <<>>
  THEN [ok |-> TRUE, map |-> gmap, openql |-> "", what |-> ""]
  ELSE LET r == add_mapping(gmap, Head(records).openql, Head(records).d.desc)
       IN  IF r.ok
           THEN add_mappings(r.map, Tail(records))
           ELSE [ok |-> FALSE, map |-> gmap,
                 openql |-> Head(records).openql, what |-> r.what]

\* Mutant: adds the mappings in the order of the description.
OpenQLGateMap_initialize_in_order(json) ==
  LET records == Records(json)
      bad == {i \in DOMAIN records : ~records[i].d.ok}
      parameterized == SelectSeq(records, IsParameterized)
      added == add_mappings(<<>>, records)
  IN  IF bad # {}
      THEN Failed(records[CHOOSE i \in bad : \A j \in bad : i <= j].openql,
                  "type_error")
      ELSE IF ~added.ok
      THEN Failed(added.openql, added.what)
      ELSE [ok |-> TRUE, map |-> added.map,
            has_angle |-> {parameterized[i].openql :
                             i \in DOMAIN parameterized},
            err |-> [openql |-> "", what |-> ""]]

\* OpenQLGateMap::initialize: the fixed records are added before the
\* parameterized ones, whose names go to has_angle.
OpenQLGateMap_initialize(json) ==
  LET records == Records(json)
      bad == {i \in DOMAIN records : ~records[i].d.ok}
      fixed == SelectSeq(records, LAMBDA r : ~IsParameterized(r))
      parameterized == SelectSeq(records, IsParameterized)
      added == add_mappings(<<>>, fixed \o parameterized)
  IN  IF bad # {}
      THEN Failed(records[CHOOSE i \in bad : \A j \in bad : i <= j].openql,
                  "type_error")
      ELSE IF ~added.ok
      THEN Failed(added.openql, added.what)
      ELSE [ok |-> TRUE, map |-> added.map,
            has_angle |-> {parameterized[i].openql :
                             i \in DOMAIN parameterized},
            err |-> [openql |-> "", what |-> ""]]

NoDescription == [name |-> "", qubits |-> <<>>, angle |-> 0]

\* Mutant: takes the first converter of the map when none recognizes the
\* gate.
OpenQLGateMap_detect_guesses(gm, gate) ==
  LET r == GateMap_detect(gm.map, gate)
  IN  IF ~r.detected /\ gm.map = <<>>
      THEN [ok |-> FALSE, err |-> "UnknownGate", desc |-> NoDescription]
      ELSE IF ~r.detected
      THEN [ok |-> TRUE, err |-> "none",
            desc |-> [name |-> gm.map[1].openql, qubits |-> gate.qubits,
                      angle |-> 0]]
      ELSE [ok |-> TRUE, err |-> "none",
            desc |-> [name |-> r.openql,
                      qubits |-> r.qubits,
                      angle |-> IF r.openql \in gm.has_angle
                                THEN r.params[1] ELSE 0]]

\* Mutant: never reads the angle.
OpenQLGateMap_detect_without_angle(gm, gate) ==
  LET r == GateMap_detect(gm.map, gate)
  IN  IF ~r.detected
      THEN [ok |-> FALSE, err |-> "UnknownGate", desc |-> NoDescription]
      ELSE [ok |-> TRUE, err |-> "none",
            desc |-> [name |-> r.openql, qubits |-> r.qubits, angle |-> 0]]

\* OpenQLGateMap::detect: the description of the DQCsim gate, or
\* UnknownGate.
OpenQLGateMap_detect(gm, gate) ==
  LET r == GateMap_detect(gm.map, gate)
  IN  IF ~r.detected
      THEN [ok |-> FALSE, err |-> "UnknownGate", desc |-> NoDescription]
      ELSE [ok |-> TRUE, err |-> "none",
            desc |-> [name |-> r.openql,
                      qubits |-> r.qubits,
                      angle |-> IF r.openql \in gm.has_angle
                                THEN r.params[1] ELSE 0]]

\* Mutant: pushes the qubits in reverse order.
OpenQLGateMap_construct_reversed(gm, desc) ==
  LET params == IF desc.name \in gm.has_angle THEN <<desc.angle>> ELSE <<>>
      qubits == [i \in 1..Len(desc.qubits) |->
                   desc.qubits[Len(desc.qubits) + 1 - i]]
      r == GateMap_construct(gm.map, desc.name, qubits, params)
  IN  IF r.ok
      THEN [ok |-> TRUE, err |-> "none", gate |-> r.gate]
      ELSE [ok |-> FALSE, err |-> "UnknownGate", gate |-> NoGate]

\* OpenQLGateMap::construct: the DQCsim gate for the description, or
\* UnknownGate when map.construct throws.
OpenQLGateMap_construct(gm, desc) ==
  LET params == IF desc.name \in gm.has_angle THEN <<desc.angle>> ELSE <<>>
      qubits == desc.qubits
      r == GateMap_construct(gm.map, desc.name, qubits, params)
  IN  IF r.ok
      THEN [ok |-> TRUE, err |-> "none", gate |-> r.gate]
      ELSE [ok |-> FALSE, err |-> "UnknownGate", gate |-> NoGate]

(***************************************************************************)
(* An OpenQLGateMap built from a gatemap description and then asked to     *)
(* detect and construct gates.                                             *)
(***************************************************************************)
\* The "matrix" arrays of the descriptions: well-shaped arrays of every
\* size up to MaxMatrix, and two with an element that is no pair.
Spellings(n) ==
  IF n = 0 THEN {Mat("crash", 0, 0), Mat("none", 0, 0), Mat("one", 0, 0)}
  ELSE IF n = 1 THEN {Mat("one", 0, 0)}
  ELSE IF n = 4 THEN {Mat("x", 0, 1), Mat("none", 0, 1)}
  ELSE IF n = 16 THEN {Mat("swap", 0, 2)}
  ELSE {Mat("none", 0, 0)}

Matrices ==
     UNION {{JArray([i \in 1..n |-> "pair"], m) : m \in Spellings(n)} :
              n \in 0..MaxMatrix}
  \cup
     {JArray(<<"pair", "number", "pair", "pair">>, Mat("none", 0, 1)),
      JArray(<<"triple">>, Mat("none", 0, 0))}

XMatrix == JArray([i \in 1..4 |-> "pair"], Mat("x", 0, 1))

\* The records of the descriptions in the string notation.
Shorthands ==
  {<<"x">>, <<"c-", "x">>, <<"C-", "X">>, <<"rx">>, <<"RX">>,
   <<"c-", "rx">>, <<"rx_180">>, <<"measure">>, <<"c-", "measure">>,
   <<"prep">>, <<"c-", "c-", "prep">>, <<"foo">>}

\* The records of the descriptions in the object notation.
Objects ==
     {[type |-> JString(<<"x">>), controlled |-> JNumber(1)],
      [type |-> JString(<<"RX">>)],
      [type |-> JString(<<"c-", "x">>)],
      [type |-> JString(<<"x">>), basis |-> JString(<<"q">>)],
      [type |-> JString(<<"measure">>)],
      [type |-> JString(<<"measure">>), basis |-> JString(<<"X">>)],
      [type |-> JString(<<"measure">>), basis |-> JString(<<"q">>)],
      [type |-> JString(<<"measure">>), basis |-> JNumber(1)],
      [type |-> JString(<<"measure">>), controlled |-> JNumber(1)],
      [type |-> JString(<<"measure">>), matrix |-> XMatrix,
       basis |-> JString(<<"q">>)],
      [type |-> JString(<<"prep">>), basis |-> JString(<<"y">>),
       controlled |-> JNumber(2)],
      [type |-> JString(<<"unitary">>)],
      [type |-> JString(<<"unitary">>), matrix |-> JNumber(1)],
      [type |-> JNumber(1)],
      [basis |-> JString(<<"z">>)]}
  \cup
     {[type |-> JString(<<"unitary">>), matrix |-> m] : m \in Matrices}

\* The values a key of the gatemap description may have.
EntryDescs ==
     {JString(s) : s \in Shorthands}
  \cup
     {JObject(o) : o \in Objects}
  \cup
     {JNumber(1)}

\* The gatemap descriptions: objects with one or two keys.
GateMapJsons ==
  UNION {[K -> EntryDescs] :
           K \in (SUBSET Range(OpenQLKeys)) \ {{}}}

\* The DQCsim gates handed to detect.
DqcsGates ==
     {[type |-> "unitary", matrix |-> m, controls |-> 0, qubits |-> <<1>>] :
        m \in {Mat("x", 0, 1), Mat("h", 0, 1), Mat("rx", 180, 1),
               Mat("rx", 90, 1), Mat("rx", -90, 1), Mat("rx", 0, 1)}}
  \cup
     {[type |-> "unitary", matrix |-> m, controls |-> 1,
       qubits |-> <<2, 1>>] :
        m \in {Mat("x", 0, 1), Mat("rx", 90, 1)}}
  \cup
     {[type |-> "unitary", matrix |-> Mat("swap", 0, 2), controls |-> 0,
       qubits |-> <<2, 1>>]}
  \cup
     {[type |-> t, matrix |-> PauliBasis(b), controls |-> 0,
       qubits |-> q] :
        t \in {"measure", "prep"}, b \in {"Z", "X"},
        q \in {<<1>>, <<2, 1>>}}

\* The OpenQL gate descriptions handed to construct; g3 is never
\* registered.
Descriptions ==
  {[name |-> n, qubits |-> q, angle |-> a] :
     n \in Range(OpenQLKeys) \cup {"g3"},
     q \in {<<1>>, <<2, 1>>},
     a \in {0, 90}}

\* OpenQLGateMap's constructor.
GateMapInitialize ==
  \E json \in GateMapJsons :
    /\ gatemap_op.name = "none"
    /\ gatemap_json' = json
    /\ gatemap' = OpenQLGateMap_initialize(json)
    /\ gatemap_op' = [NoGateMapOp EXCEPT !.name = "initialize",
                                          !.ok = gatemap'.ok]
    /\ UNCHANGED <<engine_vars, bm, op>>

GateMapDetect ==
  \E gate \in DqcsGates :
    /\ gatemap.ok
    /\ LET r == OpenQLGateMap_detect(gatemap, gate)
       IN  gatemap_op' = [name |-> "detect", gate |-> gate,
                          desc |-> r.desc, ok |-> r.ok, err |-> r.err]
    /\ UNCHANGED <<engine_vars, bm, op, gatemap_json, gatemap>>

GateMapConstruct ==
  \E desc \in Descriptions :
    /\ gatemap.ok
    /\ LET r == OpenQLGateMap_construct(gatemap, desc)
       IN  gatemap_op' = [name |-> "construct", gate |-> r.gate,
                          desc |-> desc, ok |-> r.ok, err |-> r.err]
    /\ UNCHANGED <<engine_vars, bm, op, gatemap_json, gatemap>>

NextGateMap ==
  \/ GateMapInitialize
  \/ GateMapDetect
  \/ GateMapConstruct

SpecGateMap == Init /\ [][NextGateMap]_vars

(***************************************************************************)
(* MapperPlugin::initialize                                                *)
(***************************************************************************)
\* Mutant: starts the new kernel under the number of the old one.
new_kernel_keeps_counter(counter) ==
  [c |-> <<>>, kernel_counter |-> counter]

\* MapperPlugin::new_kernel: an empty kernel, named after the counter, which
\* is incremented.
new_kernel(counter) ==
  [c |-> <<>>, kernel_counter |-> counter + 1]

\* Mutant: the identity loop stops one qubit short.
identity_map_short(n) ==
  LET RECURSIVE Loop(_, _)
      Loop(m, qubit) ==
        IF qubit < n - 1 THEN Loop(map(m, qubit, qubit), qubit + 1) ELSE m
  IN  Loop(QubitBiMap, 0)

\* for (qubit = 0; qubit < num_qubits; qubit++) virt2phys.map(qubit, qubit)
identity_map(n) ==
  LET RECURSIVE Loop(_, _)
      Loop(m, qubit) ==
        IF qubit < n THEN Loop(map(m, qubit, qubit), qubit + 1) ELSE m
  IN  Loop(QubitBiMap, 0)

initialize_call(config, n) ==
  /\ phase = "constructed"
  /\   IF config \in {"bad_command", "no_hardware_config", "no_gatemap"}
       THEN \* thrown before the platform is constructed
            /\ phase' = "failed"
            /\ ret' = Return("initialize",
                             IF config = "bad_command"
                             THEN "InvalidArgument"
                             ELSE "MissingConfiguration", {})
            /\ UNCHANGED <<num_qubits, kernel_counter, kernel, virt2phys,
                           down_allocs>>
       ELSE IF config = "bad_gatemap"
       THEN \* thrown by the OpenQLGateMap constructor, after new_kernel()
            /\ phase' = "failed"
            /\ num_qubits' = n
            /\ kernel' = new_kernel(kernel_counter).c
            /\ kernel_counter' = new_kernel(kernel_counter).kernel_counter
            /\ ret' = Return("initialize",
                             "CatalogValidationError", {})
            /\ UNCHANGED <<virt2phys, down_allocs>>
       ELSE /\ phase' = "running"
            /\ num_qubits' = n
            /\ kernel' = new_kernel(kernel_counter).c
            /\ kernel_counter' = new_kernel(kernel_counter).kernel_counter
            /\ down_allocs' = Append(down_allocs, n)
            /\ virt2phys' = identity_map(n)
            /\ ret' = Return("initialize", "none", {})
  /\ UNCHANGED <<dqcs2virt, dqcs_nq, upstream_nq, options, oracle_log,
                 emitted, mapper_v2r_out, accepted, bm, op,
                 gatemap_json, gatemap, gatemap_op>>

initialize ==
  \E config \in Configs, n \in QubitCounts : initialize_call(config, n)

(***************************************************************************)
(* MapperPlugin::allocate                                                  *)
(***************************************************************************)
\* Mutant: the scan stops one virtual qubit short.
first_free_short(m, n) ==
  LET RECURSIVE Scan(_)
      Scan(virt_qubit) ==
        IF virt_qubit < n - 1
        THEN IF reverse_lookup(m, virt_qubit) < 0
             THEN virt_qubit
             ELSE Scan(virt_qubit + 1)
        ELSE NotFound
  IN  Scan(0)

\* Mutant: the scan runs from the highest virtual qubit down.
first_free_descending(m, n) ==
  LET RECURSIVE Scan(_)
      Scan(virt_qubit) ==
        IF virt_qubit >= 0
        THEN IF reverse_lookup(m, virt_qubit) < 0
             THEN virt_qubit
             ELSE Scan(virt_qubit - 1)
        ELSE NotFound
  IN  Scan(n - 1)

\* Mutant: takes virtual qubit 0 whether or not it is free.
first_free_ignores_occupancy(m, n) ==
  IF n > 0 THEN 0 ELSE NotFound

\* The scan for the first free OpenQL virtual qubit index; NotFound when
\* the loop ends with found = false.
first_free(m, n) ==
  LET RECURSIVE Scan(_)
      Scan(virt_qubit) ==
        IF virt_qubit < n
        THEN IF reverse_lookup(m, virt_qubit) < 0
             THEN virt_qubit
             ELSE Scan(virt_qubit + 1)
        ELSE NotFound
  IN  Scan(0)

\* Mutant: a failing call undoes the mappings it made.
allocate_loop_rolls_back(m, nq, n, qubits) ==
  LET RECURSIVE Loop(_, _, _)
      Loop(mm, k, qs) ==
        IF qs = <<>>
        THEN [map |-> mm, nq |-> k, err |-> "none"]
        ELSE IF first_free(mm, n) = NotFound
             THEN [map |-> m, nq |-> nq, err |-> "CapacityExceeded"]
             ELSE Loop(map(mm, Head(qs), first_free(mm, n)), k + 1,
                       Tail(qs))
  IN  Loop(m, nq, qubits)

\* The loop over the qubits that are to be allocated.
RECURSIVE allocate_loop(_, _, _, _)
allocate_loop(m, nq, n, qubits) ==
  IF qubits = <<>>
  THEN [map |-> m, nq |-> nq, err |-> "none"]
  ELSE LET dqcsim_qubit == Head(qubits)
           virt_qubit == first_free(m, n)
       IN  IF virt_qubit = NotFound
           THEN [map |-> m, nq |-> nq, err |-> "CapacityExceeded"]
           ELSE allocate_loop(map(m, dqcsim_qubit, virt_qubit), nq + 1, n,
                              Tail(qubits))

allocate_call(qubits) ==
  /\ phase = "running"
  /\ qubits = NewQubits(upstream_nq, Len(qubits))
  /\ upstream_nq + Len(qubits) <= MaxUpstream
  /\ upstream_nq' = upstream_nq + Len(qubits)
  /\ LET r == allocate_loop(dqcs2virt, dqcs_nq, num_qubits, qubits)
     IN  /\ dqcs2virt' = r.map
         /\ dqcs_nq' = r.nq
         /\ ret' = Return("allocate", r.err, {})
         /\ phase' = After(r.err)
  /\ UNCHANGED <<num_qubits, kernel_counter, kernel, virt2phys,
                 options, oracle_log, down_allocs, emitted, mapper_v2r_out,
                 accepted, bm, op,
                 gatemap_json, gatemap, gatemap_op>>

allocate ==
  \E count \in 1..MaxSet : allocate_call(NewQubits(upstream_nq, count))

(***************************************************************************)
(* MapperPlugin::free                                                      *)
(***************************************************************************)
\* Mutant: frees the virtual qubit with the number of the upstream qubit.
free_loop_wrong_side(m, qubits) ==
  LET RECURSIVE Loop(_, _)
      Loop(mm, qs) ==
        IF qs = <<>> THEN mm
        ELSE Loop(unmap_downstream(mm, Head(qs)), Tail(qs))
  IN  Loop(m, qubits)

\* The loop over the qubits that are to be freed.
free_loop(m, qubits) ==
  LET RECURSIVE Loop(_, _)
      Loop(mm, qs) ==
        IF qs = <<>> THEN mm
        ELSE Loop(unmap_upstream(mm, Head(qs)), Tail(qs))
  IN  Loop(m, qubits)

free_call(qubits) ==
  /\ phase = "running"
  /\ dqcs2virt' = free_loop(dqcs2virt, qubits)
  /\ ret' = Return("free", "none", {})
  /\ UNCHANGED <<phase, num_qubits, kernel_counter, kernel, dqcs_nq,
                 upstream_nq, virt2phys, options, oracle_log, down_allocs,
                 emitted, mapper_v2r_out, accepted, bm, op,
                 gatemap_json, gatemap, gatemap_op>>

free ==
  \E qubits \in IdSeqs :
    /\ Range(qubits) \subseteq 1..upstream_nq
    /\ free_call(qubits)

(***************************************************************************)
(* MapperPlugin::run_mapper                                                *)
(***************************************************************************)
\* What mapper.Map() may leave in v2r_out: for every qubit index of the
\* kernel a real qubit index or UNDEFINED_QUBIT.
MapperOutputs(n) == [0..(n - 1) -> (0..(n - 1)) \cup {UNDEFINED_QUBIT}]

\* The kernel after mapper.Map(): each operand moved to the real qubit that
\* v2r_out gives it, and left where it is when v2r_out gives none.
Route(c, v2r_out) ==
  [i \in 1..Len(c) |->
     [c[i] EXCEPT !.operands =
        [j \in 1..Len(c[i].operands) |->
           LET q == c[i].operands[j]
           IN  IF v2r_out[q] # UNDEFINED_QUBIT THEN v2r_out[q] ELSE q]]]

\* The ql::options set before the mapper runs.
set_options(opts, counter) ==
  IF counter = 0
  THEN [opts EXCEPT !.mapinitone2one = "no",
                    !.mapassumezeroinitstate = "yes"]
  ELSE [opts EXCEPT !.mapinitone2one = "yes",
                    !.initialplace = "no",
                    !.mapassumezeroinitstate = "yes"]

\* Mutant: keeps the old physical qubit when the mapper gives no new one.
update_virt2phys_keeps_undefined(v2p, v2r_out, n) ==
  LET RECURSIVE Loop(_, _)
      Loop(new_virt2phys, old_phys) ==
        IF old_phys < n
        THEN LET new_phys == IF v2r_out[old_phys] # UNDEFINED_QUBIT
                             THEN v2r_out[old_phys] ELSE old_phys
                 virt == reverse_lookup(v2p, old_phys)
             IN  IF virt >= 0
                 THEN Loop(map(new_virt2phys, virt, new_phys), old_phys + 1)
                 ELSE Loop(new_virt2phys, old_phys + 1)
        ELSE new_virt2phys
  IN  Loop(QubitBiMap, 0)

\* Mutant: a physical qubit that held no virtual qubit is entered under its
\* own index.
update_virt2phys_maps_free(v2p, v2r_out, n) ==
  LET RECURSIVE Loop(_, _)
      Loop(new_virt2phys, old_phys) ==
        IF old_phys < n
        THEN LET new_phys == v2r_out[old_phys]
                 virt == reverse_lookup(v2p, old_phys)
             IN  IF new_phys # UNDEFINED_QUBIT
                 THEN Loop(map(new_virt2phys,
                               IF virt >= 0 THEN virt ELSE old_phys,
                               new_phys), old_phys + 1)
                 ELSE Loop(new_virt2phys, old_phys + 1)
        ELSE new_virt2phys
  IN  Loop(QubitBiMap, 0)

\* The new virt2phys built from the mapping result.
update_virt2phys(v2p, v2r_out, n) ==
  LET RECURSIVE Loop(_, _)
      Loop(new_virt2phys, old_phys) ==
        IF old_phys < n
        THEN LET new_phys == v2r_out[old_phys]
                 virt == reverse_lookup(v2p, old_phys)
             IN  IF new_phys # UNDEFINED_QUBIT /\ virt >= 0
                 THEN Loop(map(new_virt2phys, virt, new_phys), old_phys + 1)
                 ELSE Loop(new_virt2phys, old_phys + 1)
        ELSE new_virt2phys
  IN  Loop(QubitBiMap, 0)

\* Mutant: sends the gates of the mapped kernel last to first.
send_downstream_reversed(c) ==
  [i \in 1..Len(c) |-> construct(c[Len(c) + 1 - i])]

\* The gates sent downstream for the mapped kernel, in kernel order.
send_downstream(c) == [i \in 1..Len(c) |-> construct(c[i])]

\* Mutant: runs the mapper on an empty kernel too.
run_mapper_maps_empty_kernel(c) ==
  \E out \in MapperOutputs(num_qubits) :
    /\ mapper_v2r_out' = out
    /\ options' = set_options(options, kernel_counter)
    /\ oracle_log' = Append(oracle_log,
                            [mapinitone2one |-> options'.mapinitone2one,
                             initialplace |-> options'.initialplace,
                             kernel_counter |-> kernel_counter])
    /\ virt2phys' = update_virt2phys(virt2phys, out, num_qubits)
    /\ emitted' = emitted \o send_downstream(Route(c, out))
    /\ kernel' = <<>>
    /\ kernel_counter' = kernel_counter + 1

\* Mutant: the gates of this kernel overtake those sent before.
run_mapper_sends_first(c) ==
  IF c = <<>>
  THEN /\ kernel' = c
       /\ UNCHANGED <<kernel_counter, virt2phys, options, oracle_log,
                      emitted, mapper_v2r_out>>
  ELSE \E out \in MapperOutputs(num_qubits) :
         /\ mapper_v2r_out' = out
         /\ options' = set_options(options, kernel_counter)
         /\ oracle_log' = Append(oracle_log,
                                 [mapinitone2one |-> options'.mapinitone2one,
                                  initialplace |-> options'.initialplace,
                                  kernel_counter |-> kernel_counter])
         /\ virt2phys' = update_virt2phys(virt2phys, out, num_qubits)
         /\ emitted' = send_downstream(Route(c, out)) \o emitted
         /\ kernel' = <<>>
         /\ kernel_counter' = kernel_counter + 1

\* Mutant: sends the kernel downstream but goes on with the same kernel.
run_mapper_keeps_kernel(c) ==
  IF c = <<>>
  THEN /\ kernel' = c
       /\ UNCHANGED <<kernel_counter, virt2phys, options, oracle_log,
                      emitted, mapper_v2r_out>>
  ELSE \E out \in MapperOutputs(num_qubits) :
         /\ mapper_v2r_out' = out
         /\ options' = set_options(options, kernel_counter)
         /\ oracle_log' = Append(oracle_log,
                                 [mapinitone2one |-> options'.mapinitone2one,
                                  initialplace |-> options'.initialplace,
                                  kernel_counter |-> kernel_counter])
         /\ virt2phys' = update_virt2phys(virt2phys, out, num_qubits)
         /\ emitted' = emitted \o send_downstream(Route(c, out))
         /\ kernel' = c
         /\ kernel_counter' = kernel_counter + 1

\* run_mapper on a kernel holding the gates c.
run_mapper(c) ==
  IF c = <<>>
  THEN /\ kernel' = c
       /\ UNCHANGED <<kernel_counter, virt2phys, options, oracle_log,
                      emitted, mapper_v2r_out>>
  ELSE \E out \in MapperOutputs(num_qubits) :
         /\ mapper_v2r_out' = out
         /\ options' = set_options(options, kernel_counter)
         /\ oracle_log' = Append(oracle_log,
                                 [mapinitone2one |-> options'.mapinitone2one,
                                  initialplace |-> options'.initialplace,
                                  kernel_counter |-> kernel_counter])
         /\ virt2phys' = update_virt2phys(virt2phys, out, num_qubits)
         /\ emitted' = emitted \o send_downstream(Route(c, out))
         /\ kernel' = new_kernel(kernel_counter).c
         /\ kernel_counter' = new_kernel(kernel_counter).kernel_counter

(***************************************************************************)
(* MapperPlugin::gate                                                      *)
(***************************************************************************)
\* Mutant: falls back to the virtual index when the second hop is missing.
to_physical_keeps_virtual(d2v, v2p, dqcs) ==
  LET virt == forward_lookup(d2v, dqcs)
  IN  IF virt < 0 THEN NotFound
      ELSE IF forward_lookup(v2p, virt) < 0 THEN virt
      ELSE forward_lookup(v2p, virt)

\* Upstream -> virtual -> physical; NotFound when either hop is missing.
to_physical(d2v, v2p, dqcs) ==
  LET virt == forward_lookup(d2v, dqcs)
  IN  IF virt < 0 THEN NotFound ELSE forward_lookup(v2p, virt)

\* Mutant: writes the physical indices back in reverse order.
translate_qubits_reversed(d2v, v2p, qubits) ==
  [i \in 1..Len(qubits) |->
     to_physical(d2v, v2p, qubits[Len(qubits) + 1 - i])]

\* The conversion of the description's qubits to physical qubit indices.
translate_qubits(d2v, v2p, qubits) ==
  [i \in 1..Len(qubits) |-> to_physical(d2v, v2p, qubits[i])]

\* Mutant: always one kernel gate on all the qubits.
add_gate_never_parallel(c, desc, phys) ==
  Append(c, [name |-> desc.name, operands |-> phys, angle |-> desc.angle])

\* kernel->gate(...) for the description, one gate per qubit when the
\* description is a multi-qubit parallel gate.
add_gate(c, desc, phys) ==
  IF desc.multi_qubit_parallel
  THEN c \o [i \in 1..Len(phys) |->
               [name |-> desc.name, operands |-> <<phys[i]>>,
                angle |-> desc.angle]]
  ELSE Append(c, [name |-> desc.name, operands |-> phys,
                  angle |-> desc.angle])

\* Mutant: looks the measured qubits up in virt2phys as it was before the
\* mapper ran.
measurement_return_before_flush(g, d2v, v2p) ==
  IF \E u \in g.measures : to_physical(d2v, virt2phys, u) = NotFound
  THEN Return("gate", "UnmappedResource", {})
  ELSE Return("gate", "none",
              {[qubit |-> u,
                down |-> to_physical(d2v, virt2phys, u) + DownOffset] :
                 u \in g.measures})

\* Mutant: returns whatever it finds instead of throwing for a measured
\* qubit without a physical index.
measurement_return_ignores_unmapped(g, d2v, v2p) ==
  Return("gate", "none",
         {[qubit |-> u, down |-> to_physical(d2v, v2p, u) + DownOffset] :
            u \in {w \in g.measures : to_physical(d2v, v2p, w) # NotFound}})

\* The measurements returned for the measured qubits of the gate, looked up
\* in the maps as they are after the mapper ran.
measurement_return(g, d2v, v2p) ==
  IF \E u \in g.measures : to_physical(d2v, v2p, u) = NotFound
  THEN Return("gate", "UnmappedResource", {})
  ELSE Return("gate", "none",
              {[qubit |-> u, down |-> to_physical(d2v, v2p, u) + DownOffset] :
                 u \in g.measures})

\* Mutant: asks downstream for the results before the block is sent.
RECURSIVE get_measurement_before_send(_, _, _, _)
get_measurement_before_send(measures, d2v, v2p, sent) ==
  IF measures = {}
  THEN <<>>
  ELSE LET up_ref == CHOOSE u \in measures : \A w \in measures : u <= w
           phys == to_physical(d2v, v2p, up_ref)
       IN  IF phys = NotFound
           THEN <<>>
           ELSE <<[down |-> phys + DownOffset, sent |-> Len(emitted)]>>
                \o get_measurement_before_send(measures \ {up_ref}, d2v,
                                               v2p, sent)

\* The state.get_measurement(down_ref) calls of the measurement loop: one
\* per measured qubit, lowest reference first, up to the first qubit that
\* has no physical index; sent is the number of gates that had been sent
\* downstream when the loop ran.
RECURSIVE get_measurement(_, _, _, _)
get_measurement(measures, d2v, v2p, sent) ==
  IF measures = {}
  THEN <<>>
  ELSE LET up_ref == CHOOSE u \in measures : \A w \in measures : u <= w
           phys == to_physical(d2v, v2p, up_ref)
       IN  IF phys = NotFound
           THEN <<>>
           ELSE <<[down |-> phys + DownOffset, sent |-> sent]>>
                \o get_measurement(measures \ {up_ref}, d2v, v2p, sent)

\* Mutant: runs the mapper after every gate.
gate_call_flushes_every_gate(g) ==
  /\ phase = "running"
  /\ accepted < MaxGates
  /\   LET desc == detect(g)
           phys == translate_qubits(dqcs2virt, virt2phys, desc.qubits)
       IN  IF ~desc.ok
           THEN /\ ret' = Return("gate", "UnknownGate", {})
                /\ phase' = "failed"
                /\ UNCHANGED <<kernel, kernel_counter, virt2phys, options,
                               oracle_log, emitted, mapper_v2r_out,
                               accepted>>
           ELSE IF NotFound \in Range(phys)
           THEN /\ ret' = Return("gate", "UnmappedResource", {})
                /\ phase' = "failed"
                /\ UNCHANGED <<kernel, kernel_counter, virt2phys, options,
                               oracle_log, emitted, mapper_v2r_out,
                               accepted>>
           ELSE /\ accepted' = accepted + Len(add_gate(<<>>, desc, phys))
                /\ accepted' <= MaxGates
                /\ run_mapper(add_gate(kernel, desc, phys))
                /\ ret' = [measurement_return(g, dqcs2virt, virt2phys')
                             EXCEPT !.requests =
                               get_measurement(g.measures, dqcs2virt,
                                               virt2phys', Len(emitted'))]
                /\ phase' = After(ret'.err)
  /\ UNCHANGED <<num_qubits, dqcs2virt, dqcs_nq, upstream_nq,
                 down_allocs, bm, op,
                 gatemap_json, gatemap, gatemap_op>>

gate_call(g) ==
  /\ phase = "running"
  /\ accepted < MaxGates
  /\   LET desc == detect(g)
           phys == translate_qubits(dqcs2virt, virt2phys, desc.qubits)
       IN  IF ~desc.ok
           THEN /\ ret' = Return("gate", "UnknownGate", {})
                /\ phase' = "failed"
                /\ UNCHANGED <<kernel, kernel_counter, virt2phys, options,
                               oracle_log, emitted, mapper_v2r_out,
                               accepted>>
           ELSE IF NotFound \in Range(phys)
           THEN /\ ret' = Return("gate", "UnmappedResource", {})
                /\ phase' = "failed"
                /\ UNCHANGED <<kernel, kernel_counter, virt2phys, options,
                               oracle_log, emitted, mapper_v2r_out,
                               accepted>>
           ELSE /\ accepted' = accepted + Len(add_gate(<<>>, desc, phys))
                /\ accepted' <= MaxGates
                /\ IF g.measures # {}
                   THEN run_mapper(add_gate(kernel, desc, phys))
                   ELSE /\ kernel' = add_gate(kernel, desc, phys)
                        /\ UNCHANGED <<kernel_counter, virt2phys, options,
                                       oracle_log, emitted, mapper_v2r_out>>
                /\ ret' = [measurement_return(g, dqcs2virt, virt2phys')
                             EXCEPT !.requests =
                               get_measurement(g.measures, dqcs2virt,
                                               virt2phys', Len(emitted'))]
                /\ phase' = After(ret'.err)
  /\ UNCHANGED <<num_qubits, dqcs2virt, dqcs_nq, upstream_nq,
                 down_allocs, bm, op,
                 gatemap_json, gatemap, gatemap_op>>

gate == \E g \in Gates : gate_call(g)

(***************************************************************************)
(* MapperPlugin::drop                                                      *)
(***************************************************************************)
\* Mutant: ends the session without running the mapper.
drop_without_flush ==
  /\ phase = "running"
  /\ phase' = "dropped"
  /\ ret' = Return("drop", "none", {})
  /\ UNCHANGED <<num_qubits, kernel_counter, kernel, dqcs2virt, dqcs_nq,
                 upstream_nq, virt2phys, options, oracle_log, down_allocs,
                 emitted, mapper_v2r_out, accepted, bm, op,
                 gatemap_json, gatemap, gatemap_op>>

drop ==
  /\ phase = "running"
  /\ run_mapper(kernel)
  /\ phase' = "dropped"
  /\ ret' = Return("drop", "none", {})
  /\ UNCHANGED <<num_qubits, dqcs2virt, dqcs_nq, upstream_nq, down_allocs,
                 accepted, bm, op,
                 gatemap_json, gatemap, gatemap_op>>

Next ==
  \/ initialize
  \/ allocate
  \/ free
  \/ gate
  \/ drop

Spec == Init /\ [][Next]_vars

(***************************************************************************)
(* Properties of the QubitBiMap.                                           *)
(***************************************************************************)
\* The pairings as seen from each of the two hash maps.
PairsF(m) == {<<k, m.forward[k]>> : k \in DOMAIN m.forward}
PairsR(m) == {<<m.reverse[v], v>> : v \in DOMAIN m.reverse}

\* C2: after any sequence of map, unmap_upstream and unmap_downstream calls,
\* forward_lookup(k) = v exactly when reverse_lookup(v) = k, so the two
\* lookups are inverse to each other on every mapped key and value.
C2_ForwardReverseAgree ==
  /\ \A k \in Keys, v \in Keys :
       (forward_lookup(bm, k) = v) <=> (reverse_lookup(bm, v) = k)
  /\ \A v \in DOMAIN bm.reverse :
       forward_lookup(bm, reverse_lookup(bm, v)) = v
  /\ \A k \in DOMAIN bm.forward :
       reverse_lookup(bm, forward_lookup(bm, k)) = k

\* A map holding two pairings from which a pairing was just removed.
C2_Witness ==
  /\ op.name = "unmap_downstream"
  /\ op.found
  /\ Cardinality(DOMAIN bm.forward) = 2

\* C3: map(a, b) yields the previous pairings minus any pairing with a on
\* the forward side or b on the reverse side, plus (a, b), in both lookup
\* directions, and changes nothing when (a, b) already held.
C3_MapExact ==
  [][op'.name = "map" =>
       LET a == op'.a
           b == op'.b
           kept == {p \in PairsF(bm) : p[1] # a /\ p[2] # b}
       IN  /\ PairsF(bm') = kept \cup {<<a, b>>}
           /\ PairsR(bm') = kept \cup {<<a, b>>}
           /\ (<<a, b>> \in PairsF(bm) => bm' = bm)]_vars

\* map displaced an existing pairing and the map holds two pairings.
C3_Witness ==
  /\ op.name = "map"
  /\ op.found
  /\ forward_lookup(bm, op.a) = op.b
  /\ Cardinality(DOMAIN bm.forward) = 2

\* C4: unmap_upstream(a) and unmap_downstream(b) remove the pairing holding
\* the key from both lookup directions when it is present, leave the map
\* unchanged when it is not, and touch no other pairing.
C4_UnmapFrame ==
  [][/\ op'.name = "unmap_upstream" =>
          /\ PairsF(bm') = {p \in PairsF(bm) : p[1] # op'.a}
          /\ PairsR(bm') = {p \in PairsR(bm) : p[1] # op'.a}
          /\ (op'.a \notin DOMAIN bm.forward => bm' = bm)
     /\ op'.name = "unmap_downstream" =>
          /\ PairsF(bm') = {p \in PairsF(bm) : p[2] # op'.b}
          /\ PairsR(bm') = {p \in PairsR(bm) : p[2] # op'.b}
          /\ (op'.b \notin DOMAIN bm.reverse => bm' = bm)]_vars

\* unmap_upstream removed a pairing and another pairing is still there.
C4_Witness ==
  /\ op.name = "unmap_upstream"
  /\ op.found
  /\ Cardinality(DOMAIN bm.forward) >= 1

(***************************************************************************)
(* Properties of the MapperPlugin.                                         *)
(***************************************************************************)
Injective(f) == \A x, y \in DOMAIN f : x # y => f[x] # f[y]

Live == DOMAIN dqcs2virt.forward

Min(S) == CHOOSE x \in S : \A y \in S : x <= y

\* C1: in every reachable state dqcs2virt and virt2phys are partial
\* injections, so two distinct live upstream qubits never resolve through
\* upstream -> virtual -> physical to the same physical qubit, whatever
\* v2r_out the mapper returned.
C1_NoAliasing ==
  /\ Injective(dqcs2virt.forward) /\ Injective(dqcs2virt.reverse)
  /\ Injective(virt2phys.forward) /\ Injective(virt2phys.reverse)
  /\ PairsF(dqcs2virt) = PairsR(dqcs2virt)
  /\ PairsF(virt2phys) = PairsR(virt2phys)
  /\ \A u, w \in Live :
       (/\ u # w
        /\ to_physical(dqcs2virt, virt2phys, u) # NotFound
        /\ to_physical(dqcs2virt, virt2phys, w) # NotFound)
       => to_physical(dqcs2virt, virt2phys, u)
            # to_physical(dqcs2virt, virt2phys, w)

\* Two live upstream qubits resolve to physical qubits that a flush has
\* exchanged.
C1_Witness ==
  /\ oracle_log # <<>>
  /\ to_physical(dqcs2virt, virt2phys, 1) = 1
  /\ to_physical(dqcs2virt, virt2phys, 2) = 0

\* C5: the first mapper run of a session is made with mapinitone2one = no,
\* every later one with mapinitone2one = yes and initialplace = no.
C5_FirstFlushFreeInitial ==
  \A i \in DOMAIN oracle_log :
    IF i = 1
    THEN oracle_log[i].mapinitone2one = "no"
    ELSE /\ oracle_log[i].mapinitone2one = "yes"
         /\ oracle_log[i].initialplace = "no"

\* C6: a successful initialize with N qubits leaves virt2phys the identity
\* pairing over 0..N-1, dqcs2virt empty and the kernel empty, and has
\* requested N qubits downstream exactly once.
C6_InitializeResult ==
  (ret.event = "initialize" /\ ret.err = "none") =>
    /\ PairsF(virt2phys) = {<<i, i>> : i \in 0..(num_qubits - 1)}
    /\ PairsR(virt2phys) = {<<i, i>> : i \in 0..(num_qubits - 1)}
    /\ dqcs2virt = QubitBiMap
    /\ kernel = <<>>
    /\ down_allocs = <<num_qubits>>

C6_Witness ==
  /\ ret.event = "initialize"
  /\ ret.err = "none"
  /\ num_qubits = 2

\* The placement the allocation loop is to produce: each qubit in turn at
\* the smallest index of 0..n-1 not yet paired, CapacityExceeded when there
\* is none.
RECURSIVE C7_Expected(_, _, _)
C7_Expected(pairs, n, qubits) ==
  IF qubits = <<>>
  THEN [pairs |-> pairs, err |-> "none"]
  ELSE LET unpaired == {v \in 0..(n - 1) : \A p \in pairs : p[2] # v}
       IN  IF unpaired = {}
           THEN [pairs |-> pairs, err |-> "CapacityExceeded"]
           ELSE C7_Expected(pairs \cup {<<Head(qubits), Min(unpaired)>>}, n,
                            Tail(qubits))

\* C7: allocate places each upstream qubit, in the order processed, at the
\* smallest virtual index of 0..N-1 without a reverse mapping at that
\* moment, and fails with CapacityExceeded exactly when there is none.
C7_SmallestFreeIndex ==
  [][\A count \in 1..MaxSet :
       LET qubits == NewQubits(upstream_nq, count)
           expected == C7_Expected(PairsR(dqcs2virt), num_qubits, qubits)
       IN  allocate_call(qubits) =>
             /\ PairsF(dqcs2virt') = expected.pairs
             /\ PairsR(dqcs2virt') = expected.pairs
             /\ ret'.err = expected.err]_vars

\* An allocation that went to virtual index 0 while index 1 was occupied:
\* the lower, freed index was taken again.
C7_Witness ==
  /\ ret.event = "allocate"
  /\ ret.err = "none"
  /\ dqcs_nq = 3
  /\ reverse_lookup(dqcs2virt, 0) = 3
  /\ reverse_lookup(dqcs2virt, 1) = 2

\* C8: allocating up to the capacity succeeds, allocating while all N
\* virtual indices are taken fails with CapacityExceeded, and after one
\* live qubit is freed from a full map the next allocation succeeds at
\* exactly the virtual index the freed qubit had.
C8_CapacityBoundary ==
  [][/\ \A count \in 1..MaxSet :
          LET qubits == NewQubits(upstream_nq, count)
          IN  allocate_call(qubits) =>
                /\ (Cardinality(Live) + count <= num_qubits =>
                      /\ ret'.err = "none"
                      /\ Range(qubits) \subseteq DOMAIN dqcs2virt'.forward)
                /\ (Cardinality(Live) = num_qubits =>
                      ret'.err = "CapacityExceeded")
     /\ \A u \in Live :
          (/\ ret'.event = "free"
           /\ Cardinality(Live) = num_qubits
           /\ free_call(<<u>>)) =>
            LET new == upstream_nq + 1
                r == allocate_loop(dqcs2virt', dqcs_nq, num_qubits, <<new>>)
            IN  /\ r.err = "none"
                /\ forward_lookup(r.map, new) = forward_lookup(dqcs2virt, u)
    ]_vars

\* The map is full again: a qubit was freed from a full map and the next
\* allocation took its virtual index.
C8_Witness ==
  /\ ret.event = "allocate"
  /\ ret.err = "none"
  /\ num_qubits = 2
  /\ Cardinality(Live) = num_qubits
  /\ dqcs_nq > num_qubits

\* C9: free removes the upstream-to-virtual pairing of every given qubit
\* that has one, throws nothing for qubits that have none (so freeing the
\* same qubits again changes nothing), and leaves virt2phys, the kernel and
\* the kernel counter alone and sends nothing downstream.
C9_FreeFrame ==
  /\ [](phase = "running" =>
         \A qubits \in IdSeqs :
           LET m == free_loop(dqcs2virt, qubits)
           IN  /\ PairsF(m) =
                    {p \in PairsF(dqcs2virt) : p[1] \notin Range(qubits)}
               /\ PairsR(m) =
                    {p \in PairsR(dqcs2virt) : p[1] \notin Range(qubits)}
               /\ free_loop(m, qubits) = m)
  /\ [][ret'.event = "free" =>
          /\ ret'.err = "none"
          /\ UNCHANGED <<virt2phys, kernel, kernel_counter, emitted,
                         down_allocs>>
          /\ \E qubits \in IdSeqs :
               dqcs2virt' = free_loop(dqcs2virt, qubits)]_vars

\* A free that left one of two allocated qubits live.
C9_Witness ==
  /\ ret.event = "free"
  /\ dqcs_nq = 2
  /\ Cardinality(Live) = 1

\* C10: the virtual index of a live upstream qubit changes only when that
\* qubit is freed, and in every state the live upstream qubits are
\* one-to-one with the occupied virtual indices, which lie in 0..N-1.
C10_VirtualIndexStable ==
  /\ [](/\ Injective(dqcs2virt.forward)
        /\ DOMAIN dqcs2virt.reverse =
             {dqcs2virt.forward[u] : u \in Live}
        /\ \A u \in Live : dqcs2virt.reverse[dqcs2virt.forward[u]] = u
        /\ DOMAIN dqcs2virt.reverse \subseteq 0..(num_qubits - 1))
  /\ [][\A u \in Live :
          \/ forward_lookup(dqcs2virt', u) = forward_lookup(dqcs2virt, u)
          \/ /\ ret'.event = "free"
             /\ \E qubits \in IdSeqs :
                  u \in Range(qubits) /\ free_call(qubits)]_vars

\* A qubit still live at its virtual index after another qubit was freed,
\* a later one allocated and a kernel flushed.
C10_Witness ==
  /\ kernel_counter = 2
  /\ dqcs_nq = 3
  /\ forward_lookup(dqcs2virt, 2) = 1
  /\ forward_lookup(dqcs2virt, 3) = 0

(***************************************************************************)
(* Claims about MapperPlugin::gate.                                        *)
(***************************************************************************)
\* The upstream qubit has no virtual index, or its virtual index has no
\* physical index.
Unmapped(u) ==
  \/ forward_lookup(dqcs2virt, u) = NotFound
  \/ forward_lookup(virt2phys, forward_lookup(dqcs2virt, u)) = NotFound

\* C11: a gate the gate map recognizes that has an operand without an
\* upstream-to-virtual or a virtual-to-physical pairing, at any operand
\* position, fails with UnmappedResource and leaves the kernel, dqcs2virt,
\* virt2phys and the kernel counter as they were, runs no mapper and sends
\* nothing downstream.
C11_UnmappedGateRejected ==
  [][\A g \in Gates :
       (/\ ret'.event = "gate"
        /\ detect(g).ok
        /\ \E i \in DOMAIN g.qubits : Unmapped(g.qubits[i])
        /\ gate_call(g)) =>
         /\ ret'.err = "UnmappedResource"
         /\ UNCHANGED <<kernel, dqcs2virt, virt2phys, kernel_counter,
                        emitted, oracle_log, mapper_v2r_out, accepted>>]_vars

\* A gate on qubit 2 was rejected after the flush of a measurement of qubit
\* 1 left the virtual index of qubit 2 without a physical index.
C11_Witness ==
  /\ ret.event = "gate"
  /\ ret.err = "UnmappedResource"
  /\ accepted = 1
  /\ Len(emitted) = 1
  /\ emitted[1].qubits = <<1>>
  /\ Live = {1, 2}
  /\ ~Unmapped(1)
  /\ forward_lookup(dqcs2virt, 2) # NotFound
  /\ Unmapped(2)

\* The kernel gate the claim expects for an accepted gate: the name and
\* angle of the description, and at each operand position the physical
\* index of the upstream qubit at that position under the current maps.
C12_Expected(g) ==
  [name |-> detect(g).name,
   operands |-> [i \in 1..Len(g.qubits) |->
                   virt2phys.forward[dqcs2virt.forward[g.qubits[i]]]],
   angle |-> detect(g).angle]

\* C12: an accepted gate whose description is added as one kernel gate
\* appends to the kernel a gate with the name and angle detect returned
\* and, at each operand position, the physical index
\* virt2phys.forward(dqcs2virt.forward(u_i)) of the i-th upstream qubit
\* under the maps as they are when gate is called, in the original order;
\* when the gate carries a measurement it is that kernel that is flushed.
C12_AppendedDescriptor ==
  [][\A g \in Gates :
       (/\ ret'.event = "gate"
        /\ detect(g).ok
        /\ ~detect(g).multi_qubit_parallel
        /\ \A i \in DOMAIN g.qubits : ~Unmapped(g.qubits[i])
        /\ gate_call(g)) =>
         IF g.measures = {}
         THEN kernel' = Append(kernel, C12_Expected(g))
         ELSE /\ kernel' = <<>>
              /\ emitted' =
                   emitted \o send_downstream(
                     Route(Append(kernel, C12_Expected(g)),
                           mapper_v2r_out'))]_vars

\* A cz on upstream qubits 1, 2 was appended with operands 1, 0, in that
\* order, after a flush had exchanged the physical qubits.
C12_Witness ==
  /\ ret.event = "gate"
  /\ ret.err = "none"
  /\ oracle_log # <<>>
  /\ kernel = <<[name |-> "cz", operands |-> <<1, 0>>, angle |-> 0]>>
  /\ to_physical(dqcs2virt, virt2phys, 1) = 1
  /\ to_physical(dqcs2virt, virt2phys, 2) = 0

IsPrefix(a, b) == Len(a) <= Len(b) /\ SubSeq(b, 1, Len(a)) = a

\* C13: when a gate with a measurement returns, the kernel is empty and the
\* gates sent downstream by this call are those that were pending plus the
\* measurement gate, which comes last; a gate without a measurement that is
\* accepted afterwards sends nothing and stays in the kernel, out of which
\* only a later flush sends it.
C13_MeasurementFlushes ==
  [][/\ (ret'.event = "gate" /\ ret'.err = "none" /\ ret'.meas # {}) =>
          /\ kernel' = <<>>
          /\ IsPrefix(emitted, emitted')
          /\ Len(emitted') = Len(emitted) + Len(kernel) + 1
          /\ emitted'[Len(emitted')].name = "measure"
          /\ Len(oracle_log') = Len(oracle_log) + 1
     /\ (ret'.event = "gate" /\ ret'.err = "none" /\ ret'.meas = {}) =>
          /\ emitted' = emitted
          /\ Len(kernel') = Len(kernel) + (accepted' - accepted)
          /\ accepted' > accepted
          /\ IsPrefix(kernel, kernel')
     /\ (emitted' # emitted) =>
          /\ kernel' = <<>>
          /\ Len(oracle_log') = Len(oracle_log) + 1]_vars

\* A measurement returned after one flush that sent the pending x and the
\* measurement itself.
C13_Witness ==
  /\ ret.event = "gate"
  /\ ret.err = "none"
  /\ ret.meas # {}
  /\ kernel = <<>>
  /\ Len(oracle_log) = 1
  /\ Len(emitted) = 2
  /\ emitted[1].name = "x"
  /\ emitted[2].name = "measure"

\* C14: a gate without a measurement returns an empty measurement set and
\* runs no mapper: the options, v2r_out, virt2phys and the kernel counter
\* stay as they were, nothing is sent downstream, and the kernel is the old
\* kernel followed by the gate(s) of this call only.
C14_NoFlushWithoutMeasurement ==
  [][\A g \in Gates :
       (/\ ret'.event = "gate"
        /\ g.measures = {}
        /\ gate_call(g)) =>
         /\ ret'.meas = {}
         /\ UNCHANGED <<oracle_log, options, mapper_v2r_out, emitted,
                        virt2phys, kernel_counter, dqcs2virt>>
         /\ IsPrefix(kernel, kernel')
         /\ Len(kernel') - Len(kernel) =
              IF ret'.err # "none" THEN 0
              ELSE IF detect(g).multi_qubit_parallel THEN Len(g.qubits)
              ELSE 1
         /\ \A i \in (Len(kernel) + 1)..Len(kernel') :
              kernel'[i].name = detect(g).name]_vars

\* An x was accepted after a flush and waits in the kernel: the mapper ran
\* once, for the measurement before it.
C14_Witness ==
  /\ ret.event = "gate"
  /\ ret.err = "none"
  /\ ret.meas = {}
  /\ Len(oracle_log) = 1
  /\ Len(emitted) = 1
  /\ Len(kernel) = 1
  /\ kernel[1].name = "x"

\* C15: a gate with a measurement that returns gives back exactly one
\* measurement per measured upstream qubit, keyed by that upstream qubit
\* and read from the downstream qubit p + 1, p being the physical index of
\* the upstream qubit under dqcs2virt and the virt2phys that the flush of
\* this call produced.
C15_MeasurementRekeyed ==
  [][\A g \in Gates :
       (/\ ret'.event = "gate"
        /\ ret'.err = "none"
        /\ g.measures # {}
        /\ gate_call(g)) =>
         /\ ret'.meas =
              {[qubit |-> u,
                down |-> forward_lookup(virt2phys',
                                        forward_lookup(dqcs2virt', u))
                           + DownOffset] : u \in g.measures}
         /\ \A m \in ret'.meas : m.down \in 1..num_qubits
         /\ Cardinality(ret'.meas) = Cardinality(g.measures)
         /\ {m.qubit : m \in ret'.meas} = g.measures]_vars

\* The measurement of upstream qubit 1, at virtual index 0, was read from
\* downstream qubit 2: the flush had moved virtual index 0 to physical 1.
C15_Witness ==
  /\ ret.event = "gate"
  /\ ret.err = "none"
  /\ ret.meas = {[qubit |-> 1, down |-> 2]}
  /\ forward_lookup(dqcs2virt, 1) = 0
  /\ forward_lookup(virt2phys, 0) = 1

(***************************************************************************)
(* Claims about MapperPlugin::drop and MapperPlugin::run_mapper.           *)
(***************************************************************************)
Names(c) == [i \in 1..Len(c) |-> c[i].name]

\* C16: drop always flushes: it leaves the kernel empty and sends every
\* pending gate downstream, so that after drop every gate accepted in the
\* session has been sent, the gates that followed the last measurement
\* included.
C16_DropFlushesAll ==
  /\ [](/\ Len(emitted) + Len(kernel) = accepted
        /\ phase = "dropped" => (kernel = <<>> /\ Len(emitted) = accepted))
  /\ [][ret'.event = "drop" =>
          /\ ret'.err = "none"
          /\ kernel' = <<>>
          /\ IsPrefix(emitted, emitted')
          /\ Names(SubSeq(emitted', Len(emitted) + 1, Len(emitted')))
               = Names(kernel)]_vars

\* A session that ended with drop after a measurement and a trailing x:
\* both were sent, the x by the flush of drop.
C16_Witness ==
  /\ phase = "dropped"
  /\ accepted = 2
  /\ Len(oracle_log) = 2
  /\ Names(emitted) = <<"measure", "x">>

\* C17: run_mapper on an empty kernel does nothing: the mapper is not run
\* (options and v2r_out stay as they were), virt2phys is unchanged, nothing
\* is sent downstream, and the kernel and the kernel counter stay as they
\* were.
C17_EmptyFlushNoOp ==
  [][(ret'.event = "drop" /\ kernel = <<>>) =>
       UNCHANGED <<oracle_log, options, mapper_v2r_out, virt2phys, emitted,
                   kernel, kernel_counter>>]_vars

\* A drop with nothing pending, after the flush of a measurement that had
\* changed virt2phys: one mapper run, two kernels constructed.
C17_Witness ==
  /\ ret.event = "drop"
  /\ accepted = 1
  /\ Len(oracle_log) = 1
  /\ kernel_counter = 2
  /\ Names(emitted) = <<"measure">>
  /\ virt2phys # identity_map(num_qubits)

\* The old physical indices that are re-paired by a flush: those with a
\* virtual index in the map before the flush and a defined mapper output.
C18_Paired(v2p, out, n) ==
  {p \in 0..(n - 1) :
     out[p] # UNDEFINED_QUBIT /\ reverse_lookup(v2p, p) # NotFound}

\* The pairings the claim expects in the new virt2phys.
C18_Expected(v2p, out, n) ==
  {<<reverse_lookup(v2p, p), out[p]>> : p \in C18_Paired(v2p, out, n)}

\* C18: after a flush of a non-empty kernel, with the mapper's new indices
\* one-to-one (as physical indices are), virt2phys holds the pairing (v, q)
\* exactly for the old physical indices p below N with a defined v2r_out[p]
\* = q and reverse(p) = v before the flush; whatever the mapper returned,
\* virt2phys holds no other pairing, and a virtual index whose old physical
\* index has no defined output is absent from it.
C18_VirtToPhysRebuilt ==
  [][(oracle_log' # oracle_log) =>
       LET out == mapper_v2r_out'
           paired == C18_Paired(virt2phys, out, num_qubits)
           expected == C18_Expected(virt2phys, out, num_qubits)
       IN  /\ (\A p1, p2 \in paired : p1 # p2 => out[p1] # out[p2]) =>
                /\ PairsF(virt2phys') = expected
                /\ PairsR(virt2phys') = expected
           /\ PairsF(virt2phys') \subseteq expected
           /\ \A v \in DOMAIN virt2phys.forward :
                out[virt2phys.forward[v]] = UNDEFINED_QUBIT =>
                  forward_lookup(virt2phys', v) = NotFound]_vars

\* The first flush moved virtual index 0 from physical 0 to physical 1 and
\* left virtual index 1, for whose physical index the mapper gave nothing,
\* without a physical index.
C18_Witness ==
  /\ Len(oracle_log) = 1
  /\ num_qubits = 2
  /\ mapper_v2r_out = [p \in 0..1 |-> IF p = 0 THEN 1 ELSE UNDEFINED_QUBIT]
  /\ PairsF(virt2phys) = {<<0, 1>>}
  /\ forward_lookup(virt2phys, 1) = NotFound

\* The downstream gates the claim expects for a flushed kernel: one per
\* kernel gate, in kernel order, each operand at the index the mapper gave
\* it (its old index when the mapper gave none) plus one.
C19_Sent(block, out) ==
  [i \in 1..Len(block) |->
     [name |-> block[i].name,
      qubits |-> [j \in 1..Len(block[i].operands) |->
                    LET q == block[i].operands[j]
                    IN  (IF out[q] # UNDEFINED_QUBIT THEN out[q] ELSE q) + 1],
      angle |-> block[i].angle]]

\* The kernel of the claim's example, over physical qubits 0,1 / 1 / 2, and
\* a mapper result that moves physical qubit 1 to 3.
C19_ExampleKernel ==
  <<[name |-> "cz", operands |-> <<0, 1>>, angle |-> 0],
    [name |-> "x", operands |-> <<1>>, angle |-> 0],
    [name |-> "x", operands |-> <<2>>, angle |-> 0]>>

C19_ExampleOut == [p \in 0..3 |-> IF p = 1 THEN 3 ELSE IF p = 3 THEN 1 ELSE p]

\* C19: a flush of a non-empty kernel sends downstream one gate per gate of
\* the routed kernel, in kernel order, each qubit being the routed physical
\* index plus one; the kernel over physical 0,1 / 1 / 2 with 1 moved to 3
\* is sent as gates on physical 0,3 / 3 / 2, i.e. downstream 1,4 / 4 / 3.
C19_EmissionOrder ==
  /\ [](send_downstream(Route(C19_ExampleKernel, C19_ExampleOut))
          = <<[name |-> "cz", qubits |-> <<1, 4>>, angle |-> 0],
              [name |-> "x", qubits |-> <<4>>, angle |-> 0],
              [name |-> "x", qubits |-> <<3>>, angle |-> 0]>>)
  /\ [][/\ (ret'.event = "drop" /\ kernel # <<>>) =>
            emitted' = emitted \o C19_Sent(kernel, mapper_v2r_out')
        /\ \A g \in Gates :
             (/\ ret'.event = "gate"
              /\ g.measures # {}
              /\ accepted' = accepted + 1
              /\ gate_call(g)) =>
               emitted' = emitted \o
                 C19_Sent(Append(kernel, C12_Expected(g)),
                          mapper_v2r_out')]_vars

\* One flush sent a cz and an x, in that order, with the two physical
\* qubits exchanged by the mapper: cz on downstream 2, 1 and x on 1.
C19_Witness ==
  /\ Len(oracle_log) = 1
  /\ mapper_v2r_out = [p \in 0..1 |-> 1 - p]
  /\ emitted = <<[name |-> "cz", qubits |-> <<2, 1>>, angle |-> 0],
                 [name |-> "x", qubits |-> <<1>>, angle |-> 0]>>

\* C20: over a session the gates sent downstream followed by the gates
\* pending in the kernel form one sequence in the order the gates were
\* accepted, which every step only extends at its end: what has been sent
\* stays where it is in the stream, so the gates of an earlier kernel
\* precede those of a later one, none is sent twice, and the kernel after a
\* flush holds none of the flushed gates.
C20_ProgramOrder ==
  [][LET before == Names(emitted) \o Names(kernel)
         after == Names(emitted') \o Names(kernel')
     IN  /\ IsPrefix(emitted, emitted')
         /\ IsPrefix(before, after)
         /\ Len(after) = Len(before) + (accepted' - accepted)
         /\ (oracle_log' # oracle_log) =>
              (kernel' = <<>> /\ Len(emitted') = accepted')]_vars

\* Two kernels were flushed one after the other: a measurement, flushed
\* by its own gate call, then a cz flushed by drop.
C20_Witness ==
  /\ Len(oracle_log) = 2
  /\ kernel_counter = 3
  /\ kernel = <<>>
  /\ Len(emitted) = 2
  /\ emitted[1].name = "measure"
  /\ emitted[2].name = "cz"

(***************************************************************************)
(* Claims about the kernel counter, failed allocations, parallel gates and *)
(* the domain of virt2phys.                                                *)
(***************************************************************************)
\* C21: every flush of a non-empty kernel ends with an empty kernel and the
\* kernel counter incremented by exactly one; the counter never decreases,
\* and after initialize no other step changes it: not an allocate, a free,
\* a gate without measurement, a failing gate or a drop of an empty kernel.
C21_CounterPerFlush ==
  [][/\ kernel_counter' >= kernel_counter
     /\ (oracle_log' # oracle_log) =>
          /\ kernel' = <<>>
          /\ kernel_counter' = kernel_counter + 1
     /\ (phase # "constructed" /\ oracle_log' = oracle_log) =>
          kernel_counter' = kernel_counter
     /\ (phase # "constructed" /\ kernel_counter' # kernel_counter) =>
          /\ ret'.event \in {"gate", "drop"}
          /\ Len(oracle_log') = Len(oracle_log) + 1]_vars

\* A measurement gate has just flushed the first kernel of the session:
\* the kernel is empty and the counter went from 1 to 2.
C21_Witness ==
  /\ ret.event = "gate"
  /\ ret.meas # {}
  /\ Len(oracle_log) = 1
  /\ kernel = <<>>
  /\ kernel_counter = 2

\* The number of virtual qubits that are free in dqcs2virt.
FreeSlots == num_qubits - Cardinality(DOMAIN dqcs2virt.reverse)

\* C26: an allocate that fails with CapacityExceeded part-way is not rolled
\* back: the mappings of before the call stay, the references that came
\* before the failing one are mapped, the failing one and those after it
\* are not, and virt2phys and the kernel are as they were.
C26_AllocateNotRolledBack ==
  [][(ret'.event = "allocate" /\ ret'.err = "CapacityExceeded") =>
       LET count == upstream_nq' - upstream_nq
           qubits == NewQubits(upstream_nq, count)
       IN  /\ FreeSlots < count
           /\ PairsF(dqcs2virt) \subseteq PairsF(dqcs2virt')
           /\ \A i \in 1..count :
                 (forward_lookup(dqcs2virt', qubits[i]) # NotFound)
                   <=> (i <= FreeSlots)
           /\ dqcs_nq' = dqcs_nq + FreeSlots
           /\ UNCHANGED <<virt2phys, kernel, kernel_counter, emitted>>]_vars

\* With one physical qubit, an allocate of the upstream qubits 2 and 3 after
\* qubit 1 was freed: 2 has the virtual qubit, 3 has none, and the call
\* failed.
C26_Witness ==
  /\ ret.event = "allocate"
  /\ ret.err = "CapacityExceeded"
  /\ num_qubits = 1
  /\ upstream_nq = 3
  /\ forward_lookup(dqcs2virt, 1) = NotFound
  /\ forward_lookup(dqcs2virt, 2) = 0
  /\ forward_lookup(dqcs2virt, 3) = NotFound

\* The kernel gates the claim expects for a parallel description: one per
\* qubit, in the order of the qubits.
C29_Expected(g) ==
  [i \in 1..Len(g.qubits) |->
     [name |-> detect(g).name,
      operands |-> <<to_physical(dqcs2virt, virt2phys, g.qubits[i])>>,
      angle |-> detect(g).angle]]

\* C29: a gate whose description is marked multi_qubit_parallel appends one
\* single-qubit kernel gate per qubit, with the name and angle of the
\* description, in the order of its qubits; any other gate appends exactly
\* one kernel gate that carries all its qubits.
C29_ParallelExpansion ==
  [][\A g \in Gates :
       (/\ ret'.event = "gate"
        /\ ret'.err = "none"
        /\ g.measures = {}
        /\ gate_call(g)) =>
         IF detect(g).multi_qubit_parallel
         THEN kernel' = kernel \o C29_Expected(g)
         ELSE /\ Len(kernel') = Len(kernel) + 1
              /\ IsPrefix(kernel, kernel')
              /\ Len(kernel'[Len(kernel')].operands) = Len(g.qubits)]_vars

\* A prepz on the upstream qubits 2, 1 became two kernel gates, on the
\* physical qubit of 2 and then on that of 1.
C29_Witness ==
  /\ ret.event = "gate"
  /\ ret.err = "none"
  /\ kernel = <<[name |-> "prepz", operands |-> <<1>>, angle |-> 0],
                [name |-> "prepz", operands |-> <<0>>, angle |-> 0]>>
  /\ to_physical(dqcs2virt, virt2phys, 2) = 1
  /\ to_physical(dqcs2virt, virt2phys, 1) = 0

\* C30: after initialize the virtual qubits that have a physical qubit never
\* become more: a step that does not run the mapper leaves virt2phys as it
\* is, and a flush gives a map whose virtual side is a subset of that of
\* before; so a virtual qubit that lost its physical qubit stays without
\* one, and a recognized gate on an upstream qubit that holds such a
\* virtual qubit fails with UnmappedResource.
C30_VirtDomainShrinks ==
  [][phase # "constructed" =>
       /\ DOMAIN virt2phys'.forward \subseteq DOMAIN virt2phys.forward
       /\ (oracle_log' = oracle_log) => virt2phys' = virt2phys
       /\ (/\ ret'.event = "gate"
           /\ ret'.err # "UnmappedResource") =>
             \A g \in Gates :
               (/\ detect(g).ok
                /\ \E i \in DOMAIN g.qubits :
                     /\ forward_lookup(dqcs2virt, g.qubits[i]) # NotFound
                     /\ forward_lookup(dqcs2virt, g.qubits[i])
                          \notin DOMAIN virt2phys.forward)
                 => ~gate_call(g)]_vars

\* The mapper ran twice and a virtual qubit that the first run left without
\* a physical qubit is without one after the second as well, although the
\* second run gave every physical qubit a new place.
C30_Witness ==
  /\ Len(oracle_log) = 2
  /\ num_qubits = 2
  /\ \A p \in DOMAIN mapper_v2r_out : mapper_v2r_out[p] # UNDEFINED_QUBIT
  /\ Cardinality(DOMAIN virt2phys.forward) = 1

(***************************************************************************)
(* The plugin and the stand-alone OpenQLGateMap side by side: a behaviour  *)
(* drives the one or the other.                                            *)
(***************************************************************************)
NextAll ==
  \/ gatemap_op.name = "none" /\ Next
  \/ phase = "constructed" /\ NextGateMap

SpecAll == Init /\ [][NextAll]_vars

(***************************************************************************)
(* Claims about OpenQLGateMap.                                             *)
(***************************************************************************)
\* The type of a record of the description, as initialize sees it.
Typ(d) == desugar(d).typ

\* The members of a record in the object notation.
Members(d) == desugar(d).desc.obj

\* The controlled count a record of the description gives.
ControlledOf(d) ==
  IF "controlled" \in DOMAIN Members(d) THEN Members(d).controlled.num
  ELSE 0

\* The converter registered under the name.
Entry(name) ==
  gatemap.map[CHOOSE i \in DOMAIN gatemap.map :
                gatemap.map[i].openql = name]

Registered == {gatemap.map[i].openql : i \in DOMAIN gatemap.map}

C23_UnknownGate ==
  /\ [](/\ gatemap_op.name = "detect" =>
             /\ gatemap_op.ok <=>
                  \E i \in DOMAIN gatemap.map :
                    Matches(gatemap.map[i], gatemap_op.gate)
             /\ ~gatemap_op.ok => gatemap_op.err = "UnknownGate"
        /\ (/\ gatemap_op.name = "construct"
            /\ gatemap_op.desc.name \notin Registered) =>
             /\ ~gatemap_op.ok
             /\ gatemap_op.err = "UnknownGate")
  /\ [][ret'.event = "gate" =>
          /\ ret'.err = "UnknownGate" =>
               UNCHANGED <<kernel, kernel_counter, dqcs2virt, virt2phys,
                           emitted, oracle_log, accepted>>
          /\ \A g \in Gates :
               (~detect(g).ok /\ gate_call(g)) =>
                 ret'.err = "UnknownGate"]_vars

\* A gate callback failed with UnknownGate while a gate was pending in the
\* kernel.
C23_Witness ==
  /\ ret.event = "gate"
  /\ ret.err = "UnknownGate"
  /\ kernel # <<>>
  /\ emitted = <<>>

IsParameterizedType(d) == Typ(d) \in {<<"rx">>, <<"ry">>, <<"rz">>}

\* C24: in a constructed gate map the converter of every record of the
\* description is registered, those of the records whose type is not rx,
\* ry or rz before those of the records whose type is, whatever the order
\* of the records; has_angle holds exactly the names of the records of
\* type rx, ry or rz; and a gate that a fixed converter recognizes is
\* detected under the name of a fixed converter, also when a parameterized
\* converter recognizes it too.
C24_FixedBeforeParameterized ==
  gatemap.ok =>
    /\ Registered = DOMAIN gatemap_json
    /\ Len(gatemap.map) = Cardinality(DOMAIN gatemap_json)
    /\ \A i, j \in DOMAIN gatemap.map :
         (/\ IsParameterizedType(gatemap_json[gatemap.map[i].openql])
          /\ ~IsParameterizedType(gatemap_json[gatemap.map[j].openql]))
           => j < i
    /\ gatemap.has_angle =
         {k \in DOMAIN gatemap_json : IsParameterizedType(gatemap_json[k])}
    /\ (/\ gatemap_op.name = "detect"
        /\ \E i \in DOMAIN gatemap.map :
             /\ ~IsParameterizedType(gatemap_json[gatemap.map[i].openql])
             /\ Matches(gatemap.map[i], gatemap_op.gate)) =>
         /\ gatemap_op.ok
         /\ ~IsParameterizedType(gatemap_json[gatemap_op.desc.name])
         /\ gatemap_op.desc.name \notin gatemap.has_angle

\* The description has rx under the first key and rx_180 under the second:
\* rx_180 was registered first, and an rx by 180 degrees was detected as
\* rx_180.
C24_Witness ==
  /\ gatemap.ok
  /\ DOMAIN gatemap_json = {"g1", "g2"}
  /\ gatemap_json["g1"] = JString(<<"rx">>)
  /\ gatemap_json["g2"] = JString(<<"rx_180">>)
  /\ gatemap.map[1].openql = "g2"
  /\ gatemap.map[2].openql = "g1"
  /\ gatemap_op.name = "detect"
  /\ gatemap_op.gate.matrix = Mat("rx", 180, 1)
  /\ gatemap_op.desc.name = "g2"

\* The kinds of malformed records.
NotStringNorTyped(d) ==
  /\ d.json # "string"
  /\ ~(/\ d.json = "object"
       /\ "type" \in DOMAIN d.obj
       /\ d.obj.type.json = "string")

KnownTypes ==
  {<<"measure">>, <<"prep">>, <<"unitary">>}
    \cup {<<t>> : t \in DOMAIN PredefinedGate}

UnknownType(d) == ~NotStringNorTyped(d) /\ Typ(d) \notin KnownTypes

UnknownBasis(d) ==
  /\ ~NotStringNorTyped(d)
  /\ "basis" \in DOMAIN Members(d)
  /\ Members(d).basis.json = "string"
  /\ lowercase(Members(d).basis.str) \notin {<<"x">>, <<"y">>, <<"z">>}

HasMatrix(d) == ~NotStringNorTyped(d) /\ "matrix" \in DOMAIN Members(d)

MatrixOfPairs(d) ==
  /\ HasMatrix(d)
  /\ Members(d).matrix.json = "array"
  /\ \A i \in DOMAIN Members(d).matrix.elems :
       Members(d).matrix.elems[i] = "pair"

MatrixLen(d) == Len(Members(d).matrix.elems)

\* 4^k for some k >= 0; the matrices here have far fewer than 4^8 elements.
IsPowerOfFour(n) == n \in {4^k : k \in 0..8}

EmptyMatrix(d) == MatrixOfPairs(d) /\ MatrixLen(d) = 0

\* The records the claim calls malformed.
C25_Malformed(d) ==
  \/ NotStringNorTyped(d)
  \/ UnknownType(d)
  \/ UnknownBasis(d)
  \/ HasMatrix(d) /\ ~MatrixOfPairs(d)
  \/ MatrixOfPairs(d) /\ ~IsPowerOfFour(MatrixLen(d))

\* The records that are malformed for the constructor: an unknown basis
\* counts only without a matrix, and a matrix size only when the matrix is
\* not empty.
C25_Rejected(d) ==
  \/ NotStringNorTyped(d)
  \/ UnknownType(d)
  \/ UnknownBasis(d) /\ ~HasMatrix(d)
  \/ HasMatrix(d) /\ ~MatrixOfPairs(d)
  \/ /\ MatrixOfPairs(d)
     /\ MatrixLen(d) >= 1
     /\ ~IsPowerOfFour(MatrixLen(d))

\* Every record for which the constructor throws with a message: the
\* above, a matrix that is not unitary, and a basis or controlled count of
\* the wrong JSON type.
C25_Offending(d) ==
  \/ C25_Rejected(d)
  \/ /\ MatrixOfPairs(d)
     /\ Members(d).matrix.spells.u = "none"
  \/ /\ ~NotStringNorTyped(d)
     /\ ~HasMatrix(d)
     /\ "basis" \in DOMAIN Members(d)
     /\ Members(d).basis.json # "string"

\* The record under the key passed the size check of its matrix: the
\* constructor got through it, or threw for that record with another
\* message than that of the size check, or crashed on its empty matrix.
C25_SizeAccepted(k) ==
  /\ MatrixOfPairs(gatemap_json[k])
  /\ \/ gatemap.ok
     \/ /\ gatemap.err.openql = k
        /\ gatemap.err.what # "matrix has invalid size"
     \/ /\ gatemap.err.what = "crash"
        /\ DOMAIN gatemap_json = {k}

C27_AngleByHasAngle ==
  /\ (gatemap_op.name = "detect" /\ gatemap_op.ok) =>
       gatemap_op.desc.angle =
         IF gatemap_op.desc.name \in gatemap.has_angle
         THEN gatemap_op.gate.matrix.theta
         ELSE 0
  /\ (gatemap_op.name = "construct" /\ gatemap_op.ok) =>
       IF gatemap_op.desc.name \in gatemap.has_angle
       THEN gatemap_op.gate.matrix.theta = gatemap_op.desc.angle
       ELSE /\ gatemap_op.gate.matrix = Entry(gatemap_op.desc.name).matrix
            /\ \A a \in {0, 90, -90} :
                 OpenQLGateMap_construct(
                   gatemap, [gatemap_op.desc EXCEPT !.angle = a]).gate
                   = gatemap_op.gate

\* An rx by 90 degrees was detected under a name in has_angle, with the
\* angle 90 in the description.
C27_Witness ==
  /\ gatemap_op.name = "detect"
  /\ gatemap_op.ok
  /\ gatemap_op.gate.controls = 0
  /\ gatemap_op.gate.matrix.theta = 90
  /\ gatemap_op.desc.name \in gatemap.has_angle
  /\ gatemap_op.desc.angle = 90

\* The matrix add_mapping is to register for a measure or prep record.
C28_Matrix(d) ==
  IF HasMatrix(d) THEN Members(d).matrix.spells
  ELSE IF "basis" \notin DOMAIN Members(d) THEN PauliBasis("Z")
  ELSE IF lowercase(Members(d).basis.str) = <<"x">> THEN PauliBasis("X")
  ELSE IF lowercase(Members(d).basis.str) = <<"y">> THEN PauliBasis("Y")
  ELSE PauliBasis("Z")

\* C28 as stated: no gate map is constructed from a description in which a
\* measure or prep record has a controlled count other than zero, given as
\* a field or as c- prefixes.
C28_AsStated ==
  gatemap.ok =>
    \A k \in DOMAIN gatemap_json :
      Typ(gatemap_json[k]) \in {<<"measure">>, <<"prep">>} =>
        ControlledOf(gatemap_json[k]) = 0

\* C28: in a constructed gate map the converter of a record of type measure
\* or prep is a measurement or prep converter with the matrix or basis the
\* record gives, the Z basis when it gives neither, and without control
\* qubits, whatever controlled count the record gives as a field or as c-
\* prefixes: the count is ignored and the gate map is constructed.
C28_MeasurePrepRegistered ==
  gatemap.ok =>
    \A i \in DOMAIN gatemap.map :
      LET d == gatemap_json[gatemap.map[i].openql]
      IN  Typ(d) \in {<<"measure">>, <<"prep">>} =>
            /\ gatemap.map[i].family = Typ(d)[1]
            /\ gatemap.map[i].matrix = C28_Matrix(d)
            /\ gatemap.map[i].controlled = 0
            /\ ~gatemap.map[i].param

\* A gate map was constructed from a measurement in the X basis and the
\* shorthand c-measure, which is registered as a measurement in the Z basis
\* without control qubits.
C28_Witness ==
  /\ gatemap.ok
  /\ DOMAIN gatemap_json = {"g1", "g2"}
  /\ gatemap_json["g1"] =
       JObject([type |-> JString(<<"measure">>),
                basis |-> JString(<<"X">>)])
  /\ gatemap_json["g2"] = JString(<<"c-", "measure">>)
  /\ gatemap.map[1] = [openql |-> "g1", family |-> "measure",
                       matrix |-> PauliBasis("X"), param |-> FALSE,
                       controlled |-> 0]
  /\ gatemap.map[2] = [openql |-> "g2", family |-> "measure",
                       matrix |-> PauliBasis("Z"), param |-> FALSE,
                       controlled |-> 0]


(***************************************************************************)
(* Claims about the measurement loop of MapperPlugin::gate.                *)
(***************************************************************************)
\* C31: every measurement result asked of the downstream plugin is asked by
\* a gate callback whose flush has just sent the block ending in the
\* measurement gate, after that gate was sent and for the downstream qubit
\* that gate acts on; a gate without measurement, allocate, free and drop
\* ask for none.
C31_MeasureSentBeforeRequest ==
  [][/\ \A i \in DOMAIN ret'.requests :
          /\ ret'.event = "gate"
          /\ Len(emitted') > Len(emitted)
          /\ emitted'[Len(emitted')].name = GateMapNames.MeasureZ
          /\ emitted'[Len(emitted')].qubits = <<ret'.requests[i].down>>
          /\ ret'.requests[i].sent = Len(emitted')
     /\ ret'.event \in {"allocate", "free", "drop"} => ret'.requests = <<>>
     /\ ret'.event = "gate" =>
          \A g \in Gates :
            (g.measures = {} /\ gate_call(g)) => ret'.requests = <<>>]_vars

\* A measurement of upstream qubit 1 after an X gate: both gates were sent
\* before the one result was asked for, from the downstream qubit the
\* measurement gate was sent to.
C31_Witness ==
  /\ ret.event = "gate"
  /\ ret.err = "none"
  /\ Names(emitted) = <<"x", "measure">>
  /\ emitted[2].qubits = <<2>>
  /\ ret.requests = <<[down |-> 2, sent |-> 2]>>
  /\ ret.meas = {[qubit |-> 1, down |-> 2]}

\* The measured qubits of the gate that have no physical index under the
\* two maps.
C32_Unmapped(g, d2v, v2p) ==
  {u \in g.measures : to_physical(d2v, v2p, u) = NotFound}

\* The flush of the pending block with the measurement gate added has
\* completed in this step.
C32_Flushed(g) ==
  /\ Len(oracle_log') = Len(oracle_log) + 1
  /\ emitted' =
       emitted \o
       send_downstream(
         Route(add_gate(kernel, detect(g),
                        translate_qubits(dqcs2virt, virt2phys,
                                         detect(g).qubits)),
               mapper_v2r_out'))
  /\ emitted'[Len(emitted')].name = GateMapNames.MeasureZ
  /\ virt2phys' = update_virt2phys(virt2phys, mapper_v2r_out', num_qubits)
  /\ kernel' = <<>>
  /\ kernel_counter' = kernel_counter + 1

====
